---- MODULE Spec2Model ----
(***************************************************************************)
(* Savior: the storage and recovery engine.                                *)
(*                                                                         *)
(*   savior/dedup.py       DeduplicationStore, SmartDeduplicator           *)
(*   savior/core.py        Savior (create_backup, retention, restore)      *)
(*   savior/core_dedup.py  SaviorWithDedup                                 *)
(*   savior/incremental.py IncrementalBackup                               *)
(*   savior/conflicts.py   ConflictDetector, ConflictResolver              *)
(*   savior/safety.py      SafeFileOperations.safe_extract                 *)
(*   savior/daemon.py      SaviorDaemon                                    *)
(*                                                                         *)
(* Each component has its own specification (SpecStore, SpecDedup, ...)    *)
(* over the variables it owns; the variables of the other components stay  *)
(* at their initial value.                                                 *)
(***************************************************************************)
EXTENDS Integers, Sequences, FiniteSets, TLC

(***************************************************************************)
(* Bounds of the model.                                                    *)
(***************************************************************************)
\* number of distinct file contents (byte strings) that occur
NumContents == 2
\* number of backup ids handed to the content store directly
NumBackupIds == 3
\* clock ticks in a minute: two backups can fall into the same minute
TicksPerMinute == 2
\* number of create_backup calls in a run of the backup engine
MaxCreates == 2
\* number of create_backup calls in a run that restores
MaxRestoreCreates == 1
\* number of create_backup calls that follow a backup history
MaxLateCreates == 1
\* the days of the clock of a backup history
MaxDays == 40
\* number of process ids the watchers can get
MaxPids == 2
\* SaviorDaemon.max_projects
max_projects == 20
\* number of members of an archive handed to an extraction
MaxMembers == 2
\* number of incremental backups in a run of the watch loop
MaxIncrementals == 3
\* number of distinct documents handed to _save_metadata / _save_index
NumDocs == 2
\* number of processes that save metadata.json or the dedup index
NumWriters == 2
\* number of processes that use the FileLock of one project
NumProcs == 3
\* number of lock users that die in a run
MaxDeaths == 1
\* number of threads or processes inside overlapping calls
NumThreads == 2
\* number of connections that arrive at the daemon's socket
MaxConnections == 11
\* number of watcher processes the add requests of a run start
MaxSpawns == 2
\* the cap of _start_server on len(self.client_threads)
MaxClientThreads == 10
\* "Always keep the 10 most recent backups": sorted(...)[:10]
KeepRecent == 10
\* SmartDeduplicator.MIN_DEDUP_SIZE
MIN_DEDUP_SIZE == 1024

Contents == 1..NumContents
BackupIds == 1..NumBackupIds

VARIABLES
    index,      \* DeduplicationStore: index.json / _index_cache
    chunks,     \* DeduplicationStore: content hashes with a chunk file on disk
    storeCall,  \* DeduplicationStore: the last completed call and its result
    tree,       \* Savior: the working tree outside .savior, path -> content
    metadata,   \* Savior: metadata.json, the list metadata['backups']
    disk,       \* Savior: the files under .savior, path -> file
    now,        \* the wall clock, in ticks
    created,    \* number of create_backup / create_backup_dedup calls so far
    call,       \* Savior: the last completed call and its result
    rs,         \* Savior.restore_backup: the locals of a restore in progress
    file_states,\* IncrementalBackup: file_states.json, rel_path -> hash
    inc_prev,   \* history: the files handed to the last incremental backup
    outside,    \* the files outside the project and the extraction target
    projects,   \* SaviorDaemon: projects.json, path -> pid of the watcher
    processes,  \* SaviorDaemon: self.processes, the paths with a Popen object
    watchers,   \* the pids of the watcher processes that are alive
    running,    \* SaviorDaemon: self.running
    fsys,       \* metadata.json, its temporary files and dedup/index.json
    saver,      \* per process: the position inside _save_metadata / _save_index
    loaded,     \* the result of the last _load_metadata / _load_index
    lockfile,   \* FileLock: the file at self.lockfile
    locker,     \* FileLock: per process, the position inside acquire / release
    threads,    \* per thread or process: the locals of the call it is inside
    client_threads, \* SaviorDaemon: self.client_threads, thread -> is_alive()
    connections,\* number of connections the daemon's socket has accepted
    spawned,    \* history: pid -> project path of every watcher Popen started
    cache       \* DeduplicationStore: _index_cache of each process

storeVars == <<index, chunks, storeCall>>
engineVars == <<tree, metadata, disk, now, created, call, rs>>

incrVars == <<file_states, inc_prev>>
daemonVars == <<projects, processes, watchers, running>>
persistVars == <<fsys, saver, loaded>>
lockVars == <<lockfile, locker>>
concVars == <<threads, client_threads, connections, spawned, cache>>
sysVars == <<fsys, saver, loaded, lockfile, locker,
             threads, client_threads, connections, spawned, cache>>
restVars == <<file_states, inc_prev, outside, projects, processes, watchers, running,
              fsys, saver, loaded, lockfile, locker,
              threads, client_threads, connections, spawned, cache>>

vars == <<index, chunks, storeCall, tree, metadata, disk, now, created, call, rs,
          file_states, inc_prev, outside, projects, processes, watchers, running,
          fsys, saver, loaded, lockfile, locker,
          threads, client_threads, connections, spawned, cache>>

(***************************************************************************)
(* The state after construction.                                           *)
(***************************************************************************)

\* DeduplicationStore.__init__ on a new backup directory: an empty index
InitStoreVars ==
    /\ index = <<>>
    /\ chunks = {}
    /\ storeCall = [op |-> "init"]

\* Savior.__init__ on a project without .savior: no metadata, no archives
InitEngineVars ==
    /\ tree = <<>>
    /\ metadata = <<>>
    /\ disk = <<>>
    /\ now = 0
    /\ created = 0
    /\ call = [op |-> "init"]
    /\ rs = [pc |-> "idle"]

\* IncrementalBackup.__init__ without file_states.json, SaviorDaemon.__init__
\* without projects.json, and nothing written outside the project;
\* Savior.__init__ writes no metadata.json, DeduplicationStore._init_store
\* has saved the empty index, and no process holds or wants the FileLock
InitOtherVars ==
    /\ file_states = <<>>
    /\ inc_prev = [taken |-> FALSE, files |-> <<>>]
    /\ outside = {}
    /\ fsys = [f \in {"index.json"} |-> [part |-> "whole", doc |-> 0]]
    /\ saver = [w \in 1..NumWriters |-> [pc |-> "idle"]]
    /\ loaded = [op |-> "init"]
    /\ lockfile = [exists |-> FALSE]
    /\ locker = [p \in 1..NumProcs |-> [pc |-> "idle"]]
    /\ threads = [t \in 1..NumThreads |-> [pc |-> "idle"]]
    /\ client_threads = <<>>
    /\ connections = 0
    /\ cache = [pr \in 1..NumThreads |-> [loaded |-> FALSE]]

InitRestVars ==
    /\ InitOtherVars
    /\ projects = <<>>
    /\ processes = {}
    /\ watchers = {}
    /\ running = FALSE
    /\ spawned = <<>>

(***************************************************************************)
(* savior/core.py : the clock, backup records and archive paths            *)
(***************************************************************************)

\* dict update d[k] = v
DictPut(d, k, v) == [x \in DOMAIN d \cup {k} |-> IF x = k THEN v ELSE d[x]]

\* del d[k]
DictDel(d, k) == [x \in DOMAIN d \ {k} |-> d[x]]

\* the files of the project (relative paths) and the contents they can hold
Paths == {"a.py", "b.png"}
TreeContents == {1, 2}

\* the working trees: dicts from a set of paths to contents
Trees(cs) == UNION {[ps -> cs] : ps \in SUBSET Paths}

TicksPerHour == 60 * TicksPerMinute
TicksPerDay == 24 * TicksPerHour

\* datetime fields of a timestamp; months are taken as 30 days long
HourOf(t) == (t \div TicksPerHour) % 24
DayOfMonth(t) == ((t \div TicksPerDay) % 30) + 1
MinuteStamp(t) == t \div TicksPerMinute

\* the descriptions passed to create_backup
Descriptions == {"", "v1"}

\* re.sub(...) slug of a description, "backup" for the empty one
CleanDesc(d) == IF d = "" THEN "backup" ELSE d

\* ".tar.gz" if compression_level > 0 else ".tar"
Extension(level) == IF level > 0 THEN ".tar.gz" ELSE ".tar"

\* backup_folder / backup_filename, folder "[%H:%M] [%m-%d-%Y]"
BackupPath(t, d, level) ==
    [dir |-> "folder", key |-> MinuteStamp(t),
     name |-> CleanDesc(d), ext |-> Extension(level)]

\* tarfile.open(backup_path, compress_mode): the archive as written
TarArchive(level, members) ==
    [format |-> IF level = 0 THEN "tar" ELSE "gz", members |-> members]

\* Backup(timestamp, path, description or "Automatic backup")
BackupRecord(t, path, d) ==
    [timestamp |-> t, path |-> path,
     description |-> IF d = "" THEN "Automatic backup" ELSE d]

\* insert b into a list sorted newest first, after the records as new as b
RECURSIVE InsertDesc(_, _)
InsertDesc(b, sorted) ==
    IF sorted = <<>> THEN <<b>>
    ELSE IF Head(sorted).timestamp >= b.timestamp
         THEN <<Head(sorted)>> \o InsertDesc(b, Tail(sorted))
         ELSE <<b>> \o sorted

\* sorted(backups, key=lambda b: b.timestamp, reverse=True)  (stable)
RECURSIVE SortedNewestFirst(_)
SortedNewestFirst(backups) ==
    IF backups = <<>> THEN <<>>
    ELSE InsertDesc(backups[Len(backups)],
                    SortedNewestFirst(SubSeq(backups, 1, Len(backups) - 1)))

\* backups[:n]
Take(seq, n) == SubSeq(seq, 1, IF n < Len(seq) THEN n ELSE Len(seq))

\* backups[n:]
Drop(seq, n) == SubSeq(seq, n + 1, Len(seq))

PathsOf(seq) == {seq[i].path : i \in 1..Len(seq)}

\* "Remove duplicates while preserving order": seen = set() over b.path
RECURSIVE UniqueByPath(_, _)
UniqueByPath(seq, seen) ==
    IF seq = <<>> THEN <<>>
    ELSE IF Head(seq).path \in seen
         THEN UniqueByPath(Tail(seq), seen)
         ELSE <<Head(seq)>> \o UniqueByPath(Tail(seq), seen \cup {Head(seq).path})

\* unlink of every path of ps that exists
Unlink(d, ps) == [x \in DOMAIN d \ ps |-> d[x]]

(***************************************************************************)
(* savior/core.py : Savior._cleanup_old_backups, create_backup,            *)
(* purge_backups                                                           *)
(***************************************************************************)

\* the tier rules of _cleanup_old_backups for a backup that is not among the
\* recent ones: TRUE when the record is appended to kept_backups
RetentionKeeps(b, nowT) ==
    LET age == nowT - b.timestamp
    IN  IF age > 30 * TicksPerDay THEN FALSE
        ELSE IF age < 24 * TicksPerHour THEN TRUE
        ELSE IF age < 7 * TicksPerDay /\ HourOf(b.timestamp) % 6 = 0 THEN TRUE
        ELSE IF age < 30 * TicksPerDay /\ DayOfMonth(b.timestamp) % 7 = 0 THEN TRUE
        ELSE FALSE

\* a loop that passes over the first records by position, one too many
NotRecentFromEleventh(sorted, recent_paths) == Drop(sorted, KeepRecent + 1)

\* the records the loop of _cleanup_old_backups does not pass over:
\* "if backup.path in recent_paths: continue"
NotRecent(sorted, recent_paths) ==
    LET IsOther(b) == b.path \notin recent_paths
    IN  SelectSeq(sorted, IsOther)

\* _cleanup_old_backups on the loaded backup list and the files of .savior:
\* the list that is saved and the files that are left
CleanupOldBackups(backups, d, nowT) ==
    LET sorted == SortedNewestFirst(backups)
        recent == Take(sorted, KeepRecent)
        recent_paths == PathsOf(recent)
        others == NotRecent(sorted, recent_paths)
        IsKept(b) == RetentionKeeps(b, nowT)
        IsRemoved(b) == ~RetentionKeeps(b, nowT)
        kept_backups == recent \o SelectSeq(others, IsKept)
        removed == SelectSeq(others, IsRemoved)
    IN  [backups |-> UniqueByPath(kept_backups, {}),
         disk    |-> Unlink(d, PathsOf(removed))]

\* the time that passes before a call: within the minute, or into the next one
ClockJumps == {1, TicksPerMinute}

\* compression_level argument of create_backup
Levels == 0..9

\* the editor writes a file of the project
WriteFile(p, c) ==
    /\ rs.pc = "idle"
    /\ tree' = DictPut(tree, p, c)
    /\ call' = [op |-> "write_file"]
    /\ UNCHANGED <<metadata, disk, now, created, rs>>
    /\ UNCHANGED <<storeVars, restVars>>

\* the editor deletes a file of the project
DeleteFile(p) ==
    /\ rs.pc = "idle"
    /\ p \in DOMAIN tree
    /\ tree' = DictDel(tree, p)
    /\ call' = [op |-> "delete_file"]
    /\ UNCHANGED <<metadata, disk, now, created, rs>>
    /\ UNCHANGED <<storeVars, restVars>>

\* create_backup(description, compression_level); has_space is the result of
\* _check_disk_space, jump the time since the previous call
CreateBackup(d, level, jump, has_space) ==
    LET t == now + jump
        c1 == CleanupOldBackups(metadata, disk, t)
        backup_path == BackupPath(t, d, level)
        written == DictPut(c1.disk, backup_path, TarArchive(level, tree))
        appended == Append(c1.backups, BackupRecord(t, backup_path, d))
        c2 == CleanupOldBackups(appended, written, t)
    IN  /\ rs.pc = "idle"
        /\ created' = created + 1
        /\ now' = t
        /\ IF DOMAIN tree = {}
           THEN /\ metadata' = c1.backups
                /\ disk' = c1.disk
                /\ call' = [op |-> "create_backup", ret |-> "ValueError"]
           ELSE IF ~has_space
           THEN /\ metadata' = c1.backups
                /\ disk' = c1.disk
                /\ call' = [op |-> "create_backup", ret |-> "IOError"]
           ELSE /\ metadata' = c2.backups
                /\ disk' = c2.disk
                /\ call' = [op |-> "create_backup", ret |-> "ok",
                            backup |-> BackupRecord(t, backup_path, d)]
        /\ UNCHANGED <<tree, rs>>
        /\ UNCHANGED <<storeVars, restVars>>

\* keep_recent argument of purge_backups
KeepChoices == {0, 1, 5}

\* purge_backups(keep_recent)
PurgeBackups(keep_recent) ==
    LET sorted_backups == SortedNewestFirst(metadata)
    IN  /\ rs.pc = "idle"
        /\ metadata' = Take(sorted_backups, keep_recent)
        /\ disk' = Unlink(disk, PathsOf(Drop(sorted_backups, keep_recent)))
        /\ call' = [op |-> "purge_backups", keep_recent |-> keep_recent]
        /\ UNCHANGED <<tree, now, created, rs>>
        /\ UNCHANGED <<storeVars, restVars>>

(***************************************************************************)
(* savior/conflicts.py and savior/core.py : restore_backup                 *)
(***************************************************************************)

\* tarfile.open(path, 'r:gz'): only a gzip-compressed archive can be read
ReadableAsGz(archive) == archive.format = "gz"

\* detect_file_conflicts: the paths of each conflict type
ModifiedSinceBackup(cur, backup_files) ==
    {p \in DOMAIN backup_files : p \in DOMAIN cur /\ cur[p] # backup_files[p]}

DeletedFiles(cur, backup_files) == DOMAIN backup_files \ DOMAIN cur

NewFiles(cur, backup_files) == DOMAIN cur \ DOMAIN backup_files

\* suggest_resolution_strategy: the resolution of each conflict type
SuggestedResolution(conflict_type) ==
    CASE conflict_type = "uncommitted_changes"   -> "backup_current"
      [] conflict_type = "modified_since_backup" -> "backup_current"
      [] conflict_type = "new_files"             -> "keep_current"
      [] conflict_type = "deleted_files"         -> "overwrite"
      [] conflict_type = "permission_changes"    -> "skip"

\* backup_dir / "pre-restore-safety_<%Y-%m-%d_%I-%M%p>.tar.gz"
SafetyPath(t) ==
    [dir |-> "root", key |-> MinuteStamp(t),
     name |-> "pre-restore-safety", ext |-> ".tar.gz"]

\* backup_dir / 'conflict_backups' / item['path']
ConflictBackupPath(p) ==
    [dir |-> "conflict_backups", key |-> 0, name |-> p, ext |-> ""]

\* a restore that returns False before it touched anything
RestoreFails(i) ==
    /\ call' = [op |-> "restore_backup", index |-> i, ret |-> FALSE]
    /\ UNCHANGED <<tree, metadata, disk, now, created, rs>>

\* restore_backup up to the conflict check: pick the backup, extract it into
\* the temporary directory, build backup_files
RestoreBegin(i, check_conflicts, auto_backup, force) ==
    LET sorted == SortedNewestFirst(metadata)
    IN  /\ rs.pc = "idle"
        /\ UNCHANGED <<storeVars, restVars>>
        /\ IF metadata = <<>> \/ i < 0 \/ i >= Len(metadata)
           THEN RestoreFails(i)
           ELSE LET backup == sorted[i + 1]
                IN  IF backup.path \notin DOMAIN disk
                    THEN RestoreFails(i)
                    ELSE IF ~ReadableAsGz(disk[backup.path])
                    THEN RestoreFails(i)
                    ELSE /\ rs' = [pc |-> IF check_conflicts /\ ~force
                                          THEN "detect" ELSE "remove",
                                   index |-> i,
                                   backup |-> backup,
                                   backup_files |-> disk[backup.path].members,
                                   check_conflicts |-> check_conflicts,
                                   auto_backup |-> auto_backup,
                                   force |-> force,
                                   detected |-> FALSE,
                                   pre_tree |-> tree,
                                   pre_restore_backup |-> "None",
                                   kept |-> {}, backed_up |-> {}]
                         /\ call' = [op |-> "restore_backup_begin"]
                         /\ UNCHANGED <<tree, metadata, disk, now, created>>

\* detect_file_conflicts and detect_git_conflicts; git is the outcome of the
\* git status check
RestoreDetect(git) ==
    LET has_conflicts ==
            \/ ModifiedSinceBackup(tree, rs.backup_files) # {}
            \/ DeletedFiles(tree, rs.backup_files) # {}
            \/ NewFiles(tree, rs.backup_files) # {}
            \/ git
    IN  /\ rs.pc = "detect"
        /\ rs' = [rs EXCEPT !.detected = TRUE,
                            !.pc = IF ~has_conflicts THEN "remove"
                                   ELSE IF rs.auto_backup THEN "safety"
                                   ELSE "resolve"]
        /\ call' = [op |-> "detect_conflicts"]
        /\ UNCHANGED <<tree, metadata, disk, now, created>>
        /\ UNCHANGED <<storeVars, restVars>>

\* create_pre_restore_backup: the whole tree is added to the safety archive
PreRestoreBackupOk ==
    /\ rs.pc = "safety"
    /\ disk' = DictPut(disk, SafetyPath(now), TarArchive(6, tree))
    /\ rs' = [rs EXCEPT !.pc = "resolve", !.pre_restore_backup = "written"]
    /\ call' = [op |-> "create_pre_restore_backup", ret |-> "path"]
    /\ UNCHANGED <<tree, metadata, now, created>>
    /\ UNCHANGED <<storeVars, restVars>>

\* create_pre_restore_backup when tar.add raises (a file that cannot be read,
\* a full disk): `except Exception: return None`; the archive is left with
\* the members written so far and no end of archive
PreRestoreBackupRaises(written) ==
    /\ rs.pc = "safety"
    /\ written \subseteq DOMAIN tree
    /\ written # DOMAIN tree
    /\ disk' = DictPut(disk, SafetyPath(now),
                       [format |-> "truncated",
                        members |-> [p \in written |-> tree[p]]])
    /\ rs' = [rs EXCEPT !.pc = "resolve"]
    /\ call' = [op |-> "create_pre_restore_backup", ret |-> "None"]
    /\ UNCHANGED <<tree, metadata, now, created>>
    /\ UNCHANGED <<storeVars, restVars>>

\* apply_resolution_strategy under the suggested strategy
ApplyResolution ==
    LET modified == ModifiedSinceBackup(tree, rs.backup_files)
        backed == IF SuggestedResolution("modified_since_backup") = "backup_current"
                  THEN modified ELSE {}
        kept == IF SuggestedResolution("new_files") = "keep_current"
                THEN NewFiles(tree, rs.backup_files) ELSE {}
        copies == [x \in {ConflictBackupPath(p) : p \in backed} |->
                     [format |-> "file", members |-> [q \in {x.name} |-> tree[q]]]]
    IN  /\ rs.pc = "resolve"
        /\ disk' = [x \in DOMAIN disk \cup DOMAIN copies |->
                      IF x \in DOMAIN copies THEN copies[x] ELSE disk[x]]
        /\ rs' = [rs EXCEPT !.pc = "remove", !.kept = kept, !.backed_up = backed]
        /\ call' = [op |-> "apply_resolution_strategy"]
        /\ UNCHANGED <<tree, metadata, now, created>>
        /\ UNCHANGED <<storeVars, restVars>>

\* "Remove files that don't exist in the backup"
RestoreRemove ==
    /\ rs.pc = "remove"
    /\ tree' = [p \in DOMAIN tree \cap DOMAIN rs.backup_files |-> tree[p]]
    /\ rs' = [rs EXCEPT !.pc = "copy"]
    /\ call' = [op |-> "restore_remove"]
    /\ UNCHANGED <<metadata, disk, now, created>>
    /\ UNCHANGED <<storeVars, restVars>>

\* "Restore files from backup": copy every extracted file over the tree
RestoreCopy ==
    /\ rs.pc = "copy"
    /\ tree' = [p \in DOMAIN tree \cup DOMAIN rs.backup_files |->
                  IF p \in DOMAIN rs.backup_files THEN rs.backup_files[p]
                  ELSE tree[p]]
    /\ rs' = [pc |-> "idle"]
    /\ call' = [op |-> "restore_backup", index |-> rs.index, ret |-> TRUE,
                backup |-> rs.backup, backup_files |-> rs.backup_files,
                kept |-> rs.kept, pre_tree |-> rs.pre_tree]
    /\ UNCHANGED <<metadata, disk, now, created>>
    /\ UNCHANGED <<storeVars, restVars>>

\* backup_index argument of restore_backup
Indexes == -1..MaxCreates

InitEngine ==
    /\ InitStoreVars
    /\ InitEngineVars
    /\ InitRestVars

\* A project of one file with several backups; its restores skip the
\* conflict check (check_conflicts = False or force = True).
NextEngine ==
    \/ \E c \in TreeContents : WriteFile("a.py", c)
    \/ DeleteFile("a.py")
    \/ \E d \in Descriptions, level \in Levels, jump \in ClockJumps,
          has_space \in BOOLEAN :
          created < MaxCreates /\ CreateBackup(d, level, jump, has_space)
    \/ \E keep \in KeepChoices : PurgeBackups(keep)
    \/ \E i \in Indexes, check \in BOOLEAN, force \in BOOLEAN :
          (~check \/ force) /\ RestoreBegin(i, check, FALSE, force)
    \/ RestoreRemove
    \/ RestoreCopy

SpecEngine == InitEngine /\ [][NextEngine]_vars

\* A project of two files with backups that are restored over a changed
\* tree, with every combination of check_conflicts, auto_backup and force.
NextRestore ==
    \/ \E p \in Paths, c \in TreeContents : WriteFile(p, c)
    \/ \E p \in Paths : DeleteFile(p)
    \/ \E level \in Levels, has_space \in BOOLEAN :
          created < MaxRestoreCreates /\ CreateBackup("", level, 1, has_space)
    \/ \E i \in -1..MaxRestoreCreates, check \in BOOLEAN, auto \in BOOLEAN,
          force \in BOOLEAN : RestoreBegin(i, check, auto, force)
    \/ \E git \in BOOLEAN : RestoreDetect(git)
    \/ PreRestoreBackupOk
    \/ \E written \in SUBSET Paths : PreRestoreBackupRaises(written)
    \/ ApplyResolution
    \/ RestoreRemove
    \/ RestoreCopy

SpecRestore == InitEngine /\ [][NextRestore]_vars

(***************************************************************************)
(* savior/dedup.py : DeduplicationStore                                    *)
(***************************************************************************)

\* hashlib.sha256 of the file's bytes: one digest per content, no collisions.
_calculate_file_hash(c) == <<"sha256", c>>

Hashes == {_calculate_file_hash(c) : c \in Contents}

\* st_size of a file holding content c: content 1 is a file below 1 KiB.
SizeOf(c) == IF c = 1 THEN 512 ELSE 1024 * c

\* index[content_hash]['ref_count'] = len(refs)
RefCountMiscounted(refs) == Cardinality(refs) + 1

RefCountOf(refs) == Cardinality(refs)

\* The store as a value: what store_file / remove_reference read and write.
EmptyStore == [index |-> <<>>, chunks |-> {}]

\* store_file, the branch `content_hash in index`: add the owner, recount.
StoreExisting(S, h, backup_id) ==
    LET refs == S.index[h].refs \cup {backup_id}
    IN  [S EXCEPT !.index = DictPut(S.index, h,
            [S.index[h] EXCEPT !.refs = refs, !.ref_count = RefCountOf(refs)])]

\* store_file, the branch of new content: copy the file to the chunk path and
\* create the index entry with one owner.
StoreNew(S, h, size, backup_id) ==
    [index  |-> DictPut(S.index, h,
                    [size |-> size, refs |-> {backup_id}, ref_count |-> 1]),
     chunks |-> S.chunks \cup {h}]

\* store_file(file_path, backup_id) for an existing regular file of content c.
StoreFileStore(S, c, backup_id) ==
    LET h == _calculate_file_hash(c)
    IN  IF h \in DOMAIN S.index
        THEN StoreExisting(S, h, backup_id)
        ELSE StoreNew(S, h, SizeOf(c), backup_id)

\* the metadata store_file returns for the manifest
StoreFileResult(S2, c) ==
    LET h == _calculate_file_hash(c)
    IN  [hash |-> h, size |-> SizeOf(c),
         deduplicated |-> (h \in DOMAIN S2.index /\ S2.index[h].ref_count > 1)]

\* remove_reference: the chunk file of an entry whose count reached zero.
ChunksKeepDead(chk, h) == chk

ChunksAfterUnlink(chk, h) == chk \ {h}

\* remove_reference(content_hash, backup_id) on an indexed hash.
RemoveReferenceStore(S, h, backup_id) ==
    IF h \notin DOMAIN S.index
    THEN S
    ELSE LET refs == S.index[h].refs \ {backup_id}
             cnt  == RefCountOf(refs)
         IN  IF cnt = 0
             THEN [index  |-> DictDel(S.index, h),
                   chunks |-> ChunksAfterUnlink(S.chunks, h)]
             ELSE [S EXCEPT !.index = DictPut(S.index, h,
                      [S.index[h] EXCEPT !.refs = refs, !.ref_count = cnt])]

\* cleanup_orphaned_chunks: the chunk files that are deleted.
OrphanedChunks(S) ==
    {h \in S.chunks : h \notin DOMAIN S.index \/ S.index[h].ref_count = 0}

InitStore ==
    /\ InitStoreVars
    /\ InitEngineVars
    /\ InitRestVars

TheStore == [index |-> index, chunks |-> chunks]

StoreFile(c, backup_id) ==
    LET S2 == StoreFileStore(TheStore, c, backup_id)
    IN  /\ index' = S2.index
        /\ chunks' = S2.chunks
        /\ storeCall' = [op |-> "store_file", hash |-> _calculate_file_hash(c),
                         backup_id |-> backup_id, ret |-> StoreFileResult(S2, c)]
        /\ UNCHANGED <<engineVars, restVars>>

RemoveReference(h, backup_id) ==
    LET S2 == RemoveReferenceStore(TheStore, h, backup_id)
    IN  /\ index' = S2.index
        /\ chunks' = S2.chunks
        /\ storeCall' = [op |-> "remove_reference", hash |-> h,
                         backup_id |-> backup_id, ret |-> (h \in DOMAIN index)]
        /\ UNCHANGED <<engineVars, restVars>>

CleanupOrphanedChunks ==
    /\ chunks' = chunks \ OrphanedChunks(TheStore)
    /\ storeCall' = [op |-> "cleanup_orphaned_chunks",
                     ret |-> Cardinality(OrphanedChunks(TheStore))]
    /\ UNCHANGED index
    /\ UNCHANGED <<engineVars, restVars>>

NextStore ==
    \/ \E c \in Contents, b \in BackupIds : StoreFile(c, b)
    \/ \E h \in Hashes, b \in BackupIds : RemoveReference(h, b)
    \/ CleanupOrphanedChunks

SpecStore == InitStore /\ [][NextStore]_vars

(***************************************************************************)
(* Properties of the content store (SpecStore).                            *)
(***************************************************************************)

RemovesOwner(h) ==
    /\ storeCall'.op = "remove_reference"
    /\ storeCall'.hash = h
    /\ h \in DOMAIN index
    /\ storeCall'.backup_id \in index[h].refs

\* the step is a store_file of h's content under an id that is not yet an owner
AddsOwner(h) ==
    /\ storeCall'.op = "store_file"
    /\ storeCall'.hash = h
    /\ h \in DOMAIN index
    /\ storeCall'.backup_id \notin index[h].refs

C2_Step ==
    \A h \in Hashes :
        /\ AddsOwner(h) =>
              /\ h \in DOMAIN index'
              /\ index'[h].ref_count = index[h].ref_count + 1
              /\ h \in chunks /\ h \in chunks'
        /\ (RemovesOwner(h) /\ index[h].ref_count > 1) =>
              /\ h \in DOMAIN index'
              /\ index'[h].ref_count = index[h].ref_count - 1
              /\ h \in chunks'
        /\ (h \in DOMAIN index /\ h \notin DOMAIN index') <=>
              (RemovesOwner(h) /\ index[h].refs = {storeCall'.backup_id})
        /\ (h \in chunks /\ h \notin chunks') <=>
              (RemovesOwner(h) /\ index[h].refs = {storeCall'.backup_id})

BackupAt(i) == SortedNewestFirst(metadata)[i + 1]

\* C4: for any file set and any compression level 0-9, create_backup, later
\* changes of the working tree and then restore_backup of that backup leave
\* the working tree with exactly the path -> content mapping captured at
\* backup time: the restore of a recorded backup whose archive is on disk
\* succeeds and the tree equals the archived mapping.
C4_RestoreRoundTrip ==
    (/\ call.op = "restore_backup"
     /\ call.index \in 0..(Len(metadata) - 1)
     /\ BackupAt(call.index).path \in DOMAIN disk)
    => (/\ call.ret = TRUE
        /\ tree = disk[BackupAt(call.index).path].members)

\* the step overwrites or deletes file X of the working tree
Clobbers(X) ==
    /\ X \in DOMAIN tree
    /\ (X \notin DOMAIN tree' \/ tree'[X] # tree[X])

\* the safety archive of the restore in progress holds X's pre-restore content
CapturedInSafetyArchive(X) ==
    /\ SafetyPath(now) \in DOMAIN disk
    /\ disk[SafetyPath(now)].format = "gz"
    /\ X \in DOMAIN disk[SafetyPath(now)].members
    /\ disk[SafetyPath(now)].members[X] = rs.pre_tree[X]

\* X differed from the backup when the restore began
DiffersFromBackup(X) ==
    /\ X \in DOMAIN rs.pre_tree
    /\ (X \notin DOMAIN rs.backup_files \/ rs.backup_files[X] # rs.pre_tree[X])

\* C7: when restore_backup runs with conflict checking and auto_backup over
\* a tree in which file X differs from the backup, X's pre-restore content
\* is in the pre-restore safety archive before any step of the restore
\* overwrites or deletes X, and X is overwritten only after that capture
\* has succeeded.
C7_SafetyBeforeOverwrite ==
    [][(/\ rs.pc \in {"remove", "copy"}
        /\ rs.check_conflicts /\ ~rs.force /\ rs.auto_backup)
       => \A X \in Paths :
             (Clobbers(X) /\ DiffersFromBackup(X)) => CapturedInSafetyArchive(X)]_vars

\* the records of the list that are among its n most recent by timestamp
MostRecent(backups, n) ==
    LET sorted == SortedNewestFirst(backups)
    IN  {sorted[i] : i \in 1..(IF n < Len(sorted) THEN n ELSE Len(sorted))}

Records(backups) == {backups[i] : i \in 1..Len(backups)}

\* C10: retention cleanup never deletes the archive or the metadata record
\* of any of the 10 most recent backups: a record that is among the 10 most
\* recent when the cleanup at the end of create_backup runs (among the 9
\* most recent before the new backup is appended) is still recorded, and
\* its archive still on disk, after the call.
C10_RecentNeverDeleted ==
    [][call'.op = "create_backup"
       => \A b \in MostRecent(metadata, KeepRecent - 1) :
             /\ b \in Records(metadata')
             /\ b.path \in DOMAIN disk => b.path \in DOMAIN disk']_vars

(***************************************************************************)
(* savior/core_dedup.py : SaviorWithDedup                                  *)
(***************************************************************************)

\* file_path.suffix.lower()
Suffix(p) == CASE p = "a.py" -> ".py" [] p = "b.png" -> ".png"

\* SmartDeduplicator.SKIP_DEDUP_EXTENSIONS
SKIP_DEDUP_EXTENSIONS ==
    {".zip", ".gz", ".bz2", ".xz", ".7z", ".rar", ".jpg", ".jpeg", ".png",
     ".gif", ".webp", ".mp3", ".mp4", ".avi", ".mkv", ".mov", ".pdf", ".exe",
     ".dll", ".so", ".dylib", ".db", ".sqlite", ".mdb"}

\* SmartDeduplicator.should_deduplicate for the file p holding content c
should_deduplicate(p, c) ==
    IF SizeOf(c) < MIN_DEDUP_SIZE THEN FALSE
    ELSE IF Suffix(p) \in SKIP_DEDUP_EXTENSIONS THEN FALSE
    ELSE TRUE

\* the files of the loop of create_backup_dedup that are handed to store_file
FilesToStore(files) == {p \in DOMAIN files : should_deduplicate(p, files[p])}

\* the loop of create_backup_dedup: store_file for every file of ps
RECURSIVE StoreAll(_, _, _, _)
StoreAll(S, files, ps, backup_id) ==
    IF ps = {} THEN S
    ELSE LET p == CHOOSE x \in ps : TRUE
         IN  StoreAll(StoreFileStore(S, files[p], backup_id), files,
                      ps \ {p}, backup_id)

\* dedup_files: rel_path -> the metadata store_file returned
DedupFiles(S2, files) ==
    [p \in FilesToStore(files) |-> StoreFileResult(S2, files[p])]

\* timestamp.strftime("%Y%m%d_%H%M%S_dedup"); a tick is not shorter than a
\* second, so the id names the tick
DedupBackupId(t) == t

\* manifests_dir / f"{backup_id}.json"
ManifestPath(backup_id) ==
    [dir |-> ".dedup_manifests", key |-> backup_id, name |-> "dedup", ext |-> ".json"]

\* f"{description} [DEDUP]"
DedupDescription(d) == CASE d = "" -> " [DEDUP]" [] d = "v1" -> "v1 [DEDUP]"

\* '[DEDUP]' in backup.description
IsDedup(description) == description \in {DedupDescription(d) : d \in Descriptions}

\* create_manifest: the manifest file; collected is not part of the file, it
\* remembers the files _collect_files returned
Manifest(dedup_files, files) ==
    [format |-> "manifest", members |-> dedup_files, collected |-> files]

\* create_backup_dedup(description) with enable_dedup
CreateBackupDedup(d, jump, has_space) ==
    LET t == now + jump
        c1 == CleanupOldBackups(metadata, disk, t)
        backup_id == DedupBackupId(t)
        S2 == StoreAll(TheStore, tree, FilesToStore(tree), backup_id)
        manifest_path == ManifestPath(backup_id)
        backup == [timestamp |-> t, path |-> manifest_path,
                   description |-> DedupDescription(d)]
    IN  /\ rs.pc = "idle"
        /\ created' = created + 1
        /\ now' = t
        /\ IF DOMAIN tree = {} \/ ~has_space
           THEN /\ metadata' = c1.backups
                /\ disk' = c1.disk
                /\ call' = [op |-> "create_backup_dedup", ret |-> "None"]
                /\ UNCHANGED <<index, chunks>>
           ELSE /\ index' = S2.index
                /\ chunks' = S2.chunks
                /\ disk' = DictPut(c1.disk, manifest_path,
                                   Manifest(DedupFiles(S2, tree), tree))
                /\ metadata' = Append(c1.backups, backup)
                /\ call' = [op |-> "create_backup_dedup", ret |-> "ok",
                            backup |-> backup]
        /\ UNCHANGED <<tree, rs, storeCall, restVars>>

\* retrieve_file(content_hash, destination) succeeds
Retrievable(S, h) == h \in DOMAIN S.index /\ h \in S.chunks

\* the bytes of the chunk stored under hash h
ChunkContent(h) == h[2]

\* restore_backup_dedup(backup_index) of a deduplicated backup
RestoreBackupDedup(i) ==
    LET sorted == SortedNewestFirst(metadata)
        Fails == /\ call' = [op |-> "restore_backup_dedup", index |-> i,
                             ret |-> FALSE]
                 /\ UNCHANGED tree
    IN  /\ rs.pc = "idle"
        /\ UNCHANGED <<metadata, disk, now, created, rs>>
        /\ UNCHANGED <<storeVars, restVars>>
        /\ IF metadata = <<>> \/ i < 0 \/ i >= Len(metadata)
           THEN Fails
           ELSE LET backup == sorted[i + 1]
                IN  IF ~IsDedup(backup.description)
                    THEN Fails
                    ELSE IF backup.path \notin DOMAIN disk
                    THEN Fails
                    ELSE LET files == disk[backup.path].members
                             restored == {p \in DOMAIN files :
                                            Retrievable(TheStore, files[p].hash)}
                         IN  /\ tree' = [p \in DOMAIN tree \cup restored |->
                                           IF p \in restored
                                           THEN ChunkContent(files[p].hash)
                                           ELSE tree[p]]
                             /\ call' = [op |-> "restore_backup_dedup",
                                         index |-> i,
                                         ret |-> (restored # {})]

\* cleanup_dedup_store()
CleanupDedupStore ==
    /\ rs.pc = "idle"
    /\ chunks' = chunks \ OrphanedChunks(TheStore)
    /\ call' = [op |-> "cleanup_dedup_store",
                ret |-> Cardinality(OrphanedChunks(TheStore))]
    /\ UNCHANGED <<index, storeCall, tree, metadata, disk, now, created, rs>>
    /\ UNCHANGED restVars

\* A project of two files backed up with deduplication.
NextDedup ==
    \/ \E p \in Paths, c \in Contents : WriteFile(p, c)
    \/ \E p \in Paths : DeleteFile(p)
    \/ \E has_space \in BOOLEAN :
          created < MaxCreates /\ CreateBackupDedup("", 1, has_space)
    \/ \E keep \in KeepChoices : PurgeBackups(keep)
    \/ \E i \in Indexes : RestoreBackupDedup(i)
    \/ CleanupDedupStore

SpecDedup == InitEngine /\ [][NextDedup]_vars

(***************************************************************************)
(* Properties of deduplicated backups (SpecDedup).                         *)
(***************************************************************************)

\* the deduplicated backups listed in the metadata whose manifest cites h
CitingBackups(h) ==
    {b \in Records(metadata) :
        /\ IsDedup(b.description)
        /\ b.path \in DOMAIN disk
        /\ \E p \in DOMAIN disk[b.path].members :
              disk[b.path].members[p].hash = h}

\* C3: after any sequence of create_backup_dedup, retention cleanup and
\* purge_backups, each chunk's reference count equals the number of
\* deduplicated backups still listed in the metadata whose manifest cites
\* the hash, and a chunk cited by no remaining backup no longer exists.
C3_RefCountIsCitingBackups ==
    \A h \in Hashes :
        /\ h \in DOMAIN index =>
              index[h].ref_count = Cardinality(CitingBackups(h))
        /\ CitingBackups(h) = {} => (h \notin DOMAIN index /\ h \notin chunks)

\* C6: a deduplicated backup tracks every collected file, also the files
\* that are not eligible for deduplication, so that restore_backup_dedup of
\* the backup reproduces every file that was in the project when the backup
\* was taken.
C6_DedupRestoresEveryFile ==
    (/\ call.op = "restore_backup_dedup"
     /\ call.index \in 0..(Len(metadata) - 1)
     /\ IsDedup(BackupAt(call.index).description)
     /\ BackupAt(call.index).path \in DOMAIN disk)
    => \A p \in DOMAIN disk[BackupAt(call.index).path].collected :
          /\ p \in DOMAIN disk[BackupAt(call.index).path].members
          /\ p \in DOMAIN tree
          /\ tree[p] = disk[BackupAt(call.index).path].collected[p]

(***************************************************************************)
(* savior/incremental.py : IncrementalBackup, as the watch loop uses it    *)
(***************************************************************************)

\* the attributes IncrementalBackup.__init__ sets on the object
IncrementalBackupAttrs == {"backup_dir", "state_file", "file_states"}

\* the files of the loop of find_changed_files that get past
\* file_path.relative_to(self.project_dir): reading an attribute the object
\* does not have raises AttributeError, which the loop swallows
Examined(files) ==
    IF "project_dir" \in IncrementalBackupAttrs THEN DOMAIN files ELSE {}

\* find_changed_files(files) with self.file_states = states
find_changed_files(files, states) ==
    LET current_files ==
            [p \in Examined(files) |-> _calculate_file_hash(files[p])]
    IN  [added |-> {p \in Examined(files) : p \notin DOMAIN states},
         modified |-> {p \in Examined(files) :
                          /\ p \in DOMAIN states
                          /\ states[p] # current_files[p]},
         deleted |-> DOMAIN states \ DOMAIN current_files,
         file_states |-> current_files]

\* file_path.relative_to(file_path.parent.parent) of a top-level file
ArcName(p) == <<"project", p>>

\* backup_dir / f"incremental_{time_str}.tar.gz", time_str to the minute
IncrementalPath(t) ==
    [dir |-> "", key |-> MinuteStamp(t), name |-> "incremental", ext |-> ".tar.gz"]

\* the archive create_incremental_backup writes: MANIFEST.json and the
\* added and modified files under their arcname
IncrementalArchive(files, changed, deleted, base_backup) ==
    [format |-> "gz",
     members |-> [a \in {ArcName(p) : p \in changed} |-> files[a[2]]],
     manifest |-> [deleted_files |-> deleted, base_backup |-> base_backup,
                   type |-> "incremental"]]

\* save_callback of the watch loop without --full: create_incremental_backup
\* of the collected files, then the record appended to the metadata
CreateIncrementalBackup(jump) ==
    LET t == now + jump
        backups == SortedNewestFirst(metadata)
        base_backup == IF backups # <<>> THEN <<backups[1].path>> ELSE <<>>
        backup_path == IncrementalPath(t)
        changes == find_changed_files(tree, file_states)
        backup == [timestamp |-> t, path |-> backup_path,
                   description |-> "Incremental backup"]
    IN  /\ rs.pc = "idle"
        /\ now' = t
        /\ created' = created + 1
        /\ file_states' = changes.file_states
        /\ disk' = DictPut(disk, backup_path,
                           IncrementalArchive(tree,
                                              changes.added \cup changes.modified,
                                              changes.deleted, base_backup))
        /\ metadata' = Append(metadata, backup)
        /\ inc_prev' = [taken |-> TRUE, files |-> tree]
        /\ call' = [op |-> "create_incremental_backup",
                    added |-> changes.added, modified |-> changes.modified,
                    deleted |-> changes.deleted, path |-> backup_path]
        /\ UNCHANGED <<tree, rs, outside>>
        /\ UNCHANGED <<storeVars, daemonVars, sysVars>>

\* A project of two files under the incremental watch loop.
NextIncr ==
    \/ \E p \in Paths, c \in TreeContents : WriteFile(p, c)
    \/ \E p \in Paths : DeleteFile(p)
    \/ \E jump \in ClockJumps :
          created < MaxIncrementals /\ CreateIncrementalBackup(jump)

SpecIncr == InitEngine /\ [][NextIncr]_vars

\* the files of the tree that were added or modified since the last
\* incremental backup
ChangedSincePrev ==
    {p \in DOMAIN tree :
        p \notin DOMAIN inc_prev.files \/ inc_prev.files[p] # tree[p]}

\* the files of the last incremental backup that are gone from the tree
DeletedSincePrev == DOMAIN inc_prev.files \ DOMAIN tree

\* C5: an incremental backup B2 that follows an incremental backup B1
\* computes exactly the files changed since B1 as added-or-modified and
\* exactly the files deleted since B1 as deleted, and its archive holds
\* exactly the changed files and a manifest listing the deleted ones.
C5_IncrementalChangedSet ==
    [][(call'.op = "create_incremental_backup" /\ inc_prev.taken)
       => /\ call'.added \cup call'.modified = ChangedSincePrev
          /\ call'.deleted = DeletedSincePrev
          /\ {a[2] : a \in DOMAIN disk'[call'.path].members} = ChangedSincePrev
          /\ disk'[call'.path].manifest.deleted_files = DeletedSincePrev]_vars

(***************************************************************************)
(* Extraction of an archive: SafeFileOperations.safe_extract, the          *)
(* extraction of Savior.restore_backup, IncrementalBackup.restore_incremental *)
(***************************************************************************)

\* member names of an archive: relative, absolute, and with a '..' part
MemberNames == {"a.py", "/a.py", "../a.py"}

\* member.name.startswith('/')
StartsWithSlash(name) == name = "/a.py"

\* '..' in member.name
ContainsDotDot(name) == name = "../a.py"

\* name.lstrip('/'), the first step of tarfile's 'data' filter
LStripSlash(name) == IF name = "/a.py" THEN "a.py" ELSE name

\* the content of the members of the archives handed to the extraction
MemberContents == {NumContents}

Members == [name : MemberNames, content : MemberContents]

\* the archives of one to MaxMembers members
Archives == UNION {[1..n -> Members] : n \in 1..MaxMembers}

\* the Python builds the package installs on (python_requires >= 3.7)
PythonBuilds == {"3.7", "3.12", "3.14"}

\* whether TarFile.extractall of the build accepts the filter argument
HasFilterArg(python) == python # "3.7"

\* the filter extractall applies when the call names none
DefaultFilter(python) == IF python = "3.14" THEN "data" ELSE "fully_trusted"

\* the file outside dest that a member name leads to
Location(dest, name) ==
    IF StartsWithSlash(name) THEN <<"/", name>> ELSE <<dest, name>>

\* tar.extractall(dest, filter=...): the members are extracted in order; the
\* 'data' filter strips leading slashes and raises on a name that leaves
\* dest, leaving the members extracted so far; without a filter every member
\* is written where its name leads
RECURSIVE ExtractAll(_, _, _, _)
ExtractAll(members, filter, dest, acc) ==
    IF members = <<>> THEN acc
    ELSE LET m == Head(members)
         IN  IF filter = "data"
             THEN IF ContainsDotDot(LStripSlash(m.name))
                  THEN [acc EXCEPT !.raised = TRUE]
                  ELSE ExtractAll(Tail(members), filter, dest,
                         [acc EXCEPT !.inside =
                             DictPut(acc.inside, LStripSlash(m.name), m.content)])
             ELSE IF StartsWithSlash(m.name) \/ ContainsDotDot(m.name)
                  THEN ExtractAll(Tail(members), filter, dest,
                         [acc EXCEPT !.outside =
                             acc.outside \cup {Location(dest, m.name)}])
                  ELSE ExtractAll(Tail(members), filter, dest,
                         [acc EXCEPT !.inside =
                             DictPut(acc.inside, m.name, m.content)])

NothingExtracted == [raised |-> FALSE, inside |-> <<>>, outside |-> {}]

\* the files of a directory after files were written into it
Overlay(dir, files) ==
    [p \in DOMAIN dir \cup DOMAIN files |->
        IF p \in DOMAIN files THEN files[p] ELSE dir[p]]

\* the check of safe_extract over tar.getmembers()
UnsafePath(archive) ==
    \E k \in 1..Len(archive) :
        StartsWithSlash(archive[k].name) \/ ContainsDotDot(archive[k].name)

\* safe_extract(archive_path, extract_to) with the project as extract_to
SafeExtract(archive, python) ==
    LET x == ExtractAll(archive, "data", "target", NothingExtracted)
        Returns(ok) == call' = [op |-> "safe_extract", ret |-> ok,
                                unsafe |-> UnsafePath(archive)]
    IN  /\ rs.pc = "idle"
        /\ IF UnsafePath(archive)
           THEN Returns("False") /\ UNCHANGED <<tree, outside>>
           ELSE IF ~HasFilterArg(python)
           THEN Returns("False") /\ UNCHANGED <<tree, outside>>
           ELSE /\ tree' = Overlay(tree, x.inside)
                /\ outside' = outside \cup x.outside
                /\ Returns(IF x.raised THEN "False" ELSE "True")
        /\ UNCHANGED <<metadata, disk, now, created, rs>>
        /\ UNCHANGED <<storeVars, incrVars, daemonVars, sysVars>>

\* restore_backup(index, force=True) of a backup whose archive file holds
\* the members of archive
RestoreBackupOfArchive(archive, python) ==
    LET x == ExtractAll(archive, "data", "temp_dir", NothingExtracted)
        Returns(ok) == call' = [op |-> "restore_backup", ret |-> ok,
                                unsafe |-> UnsafePath(archive)]
    IN  /\ rs.pc = "idle"
        /\ IF ~HasFilterArg(python) \/ x.raised
           THEN Returns("False") /\ UNCHANGED <<tree, outside>>
           ELSE /\ tree' = x.inside
                /\ outside' = outside \cup x.outside
                /\ Returns("True")
        /\ UNCHANGED <<metadata, disk, now, created, rs>>
        /\ UNCHANGED <<storeVars, incrVars, daemonVars, sysVars>>

\* restore_incremental(incremental_backup, base_backup, target_dir) with the
\* project as target_dir; deleted_files is the list of MANIFEST.json
RestoreIncremental(base, incremental, deleted_files, python) ==
    LET filter == DefaultFilter(python)
        b == ExtractAll(base, filter, "target_dir", NothingExtracted)
        i == ExtractAll(incremental, filter, "temp_dir", NothingExtracted)
        based == Overlay(tree, b.inside)
        kept == [p \in DOMAIN based \ deleted_files |-> based[p]]
        Returns(r) == call' = [op |-> "restore_incremental", ret |-> r,
                               unsafe |-> (UnsafePath(base) \/
                                           UnsafePath(incremental))]
    IN  /\ rs.pc = "idle"
        /\ IF b.raised
           THEN /\ tree' = based
                /\ outside' = outside \cup b.outside
                /\ Returns("raised")
           ELSE IF i.raised
           THEN /\ tree' = based
                /\ outside' = outside \cup b.outside \cup i.outside
                /\ Returns("raised")
           ELSE /\ tree' = Overlay(kept, i.inside)
                /\ outside' = outside \cup b.outside \cup i.outside
                /\ Returns("None")
        /\ UNCHANGED <<metadata, disk, now, created, rs>>
        /\ UNCHANGED <<storeVars, incrVars, daemonVars, sysVars>>

\* the archives of an incremental backup: at most one changed file
IncrementalArchives == {<<>>} \cup [1..1 -> Members]

\* A project of two files and archives of any origin handed to each of the
\* three extractions.
NextExtract ==
    \/ \E p \in Paths, c \in TreeContents : WriteFile(p, c)
    \/ \E p \in Paths : DeleteFile(p)
    \/ \E archive \in Archives, python \in PythonBuilds :
          SafeExtract(archive, python)
    \/ \E archive \in Archives, python \in PythonBuilds :
          RestoreBackupOfArchive(archive, python)
    \/ \E base \in Archives, incremental \in IncrementalArchives,
          deleted_files \in SUBSET Paths, python \in PythonBuilds :
          RestoreIncremental(base, incremental, deleted_files, python)

SpecExtract == InitEngine /\ [][NextExtract]_vars

\* the step is an extraction of an archive with an absolute or a '..' member
ExtractsUnsafeArchive ==
    /\ call'.op \in {"safe_extract", "restore_backup", "restore_incremental"}
    /\ call'.unsafe

\* C8: extracting an archive that contains a member with an absolute path or
\* a '..' path fails as a whole in safe_extract, in restore_backup and in
\* restore_incremental: an error is reported, the working tree is left
\* unchanged and no file is created or modified outside the target.
C8_UnsafeArchiveRejected ==
    [][ExtractsUnsafeArchive
       => /\ call'.ret \in {"False", "raised"}
          /\ tree' = tree
          /\ outside' = outside]_vars

(***************************************************************************)
(* savior/daemon.py : SaviorDaemon                                         *)
(***************************************************************************)

\* self.auth_token: the token of daemon.auth
AuthToken == "token-of-daemon.auth"

\* the project paths of the requests; the last one is a system directory
ProjectPaths == {"/home/u/p1", "/home/u/p2", "/etc/p"}

\* _validate_project_path(path)
_validate_project_path(path) == path \notin {"/etc/p"}

\* the pids the operating system gives to watcher processes
Pids == 1..MaxPids

\* the 'type' of a request; the last one is no command of the daemon
CommandTypes ==
    {"add_project", "remove_project", "list_projects", "status", "stop", "restart"}

\* the JSON objects of the requests: with or without the key 'auth'
Commands ==
    {[k \in {"type", "path"} |-> IF k = "type" THEN ty ELSE pa] :
        ty \in CommandTypes, pa \in ProjectPaths}
    \cup
    {[k \in {"auth", "type", "path"} |->
        CASE k = "auth" -> au [] k = "type" -> ty [] k = "path" -> pa] :
        au \in {"guessed-token", AuthToken}, ty \in CommandTypes,
        pa \in ProjectPaths}

\* what a client sends: a JSON object, JSON that is no object, or no JSON
Requests ==
    {[json |-> "object", command |-> c] : c \in Commands}
    \cup {[json |-> "array", command |-> <<>>],
          [json |-> "invalid", command |-> <<>>]}

\* command.get(key)
Get(command, key) == IF key \in DOMAIN command THEN command[key] ELSE "None"

\* a weaker test: a request without the key 'auth' passes
AuthenticatedUnlessMissing(command) ==
    "auth" \notin DOMAIN command \/ Get(command, "auth") = AuthToken

\* the check of _handle_client: not (command.get('auth') != self.auth_token)
Authenticated(command) == ~(Get(command, "auth") # AuthToken)

\* the daemon's state as a record, for the handlers below
TheDaemon ==
    [projects |-> projects, processes |-> processes, watchers |-> watchers,
     running |-> running]

\* _add_project(path, options); spawn_ok and pid are the outcome of Popen
_add_project(D, path, spawn_ok, pid) ==
    IF ~_validate_project_path(path)
    THEN [daemon |-> D, response |-> "error: Invalid or forbidden project path"]
    ELSE IF Cardinality(DOMAIN D.projects) >= max_projects
    THEN [daemon |-> D, response |-> "error: Maximum number of projects reached"]
    ELSE IF path \in DOMAIN D.projects
    THEN [daemon |-> D, response |-> "error: Project already being watched"]
    ELSE IF ~spawn_ok
    THEN [daemon |-> D, response |-> "error: Popen"]
    ELSE [daemon |-> [D EXCEPT !.projects = DictPut(D.projects, path, pid),
                               !.processes = D.processes \cup {path},
                               !.watchers = D.watchers \cup {pid}],
          response |-> "status: added"]

\* _remove_project(path)
_remove_project(D, path) ==
    IF path \notin DOMAIN D.projects
    THEN [daemon |-> D, response |-> "error: Project not being watched"]
    ELSE [daemon |-> [D EXCEPT !.watchers = D.watchers \ {D.projects[path]},
                               !.projects = DictDel(D.projects, path),
                               !.processes = D.processes \ {path}],
          response |-> "status: removed"]

\* _list_projects(): the entries whose process is gone are dropped and saved
_list_projects(D) ==
    [daemon |-> [D EXCEPT !.projects =
                    [q \in {x \in DOMAIN D.projects :
                              D.projects[x] \in D.watchers} |-> D.projects[q]]],
     response |-> "projects"]

\* _get_status()
_get_status(D) == [daemon |-> D, response |-> "status: running"]

\* stop(): the watchers are signalled and the thread exits before a
\* response is sent
stop(D) ==
    [daemon |-> [D EXCEPT !.running = FALSE,
                          !.watchers = D.watchers \
                                         {D.projects[q] : q \in DOMAIN D.projects}],
     response |-> "no response"]

\* _process_command(command)
_process_command(D, command, spawn_ok, pid) ==
    LET cmd_type == Get(command, "type")
    IN  CASE cmd_type = "add_project" ->
                _add_project(D, command["path"], spawn_ok, pid)
          [] cmd_type = "remove_project" -> _remove_project(D, command["path"])
          [] cmd_type = "list_projects" -> _list_projects(D)
          [] cmd_type = "status" -> _get_status(D)
          [] cmd_type = "stop" -> stop(D)
          [] OTHER -> [daemon |-> D, response |-> "error: Unknown command"]

\* the outcome of _handle_client for a request
HandleRequest(D, request, spawn_ok, pid) ==
    IF request.json = "invalid"
    THEN [daemon |-> D, response |-> "error: Invalid JSON", dispatched |-> FALSE]
    ELSE IF request.json # "object"
    THEN [daemon |-> D, response |-> "error: Internal error", dispatched |-> FALSE]
    ELSE IF ~Authenticated(request.command)
    THEN [daemon |-> D, response |-> "error: Authentication failed",
          dispatched |-> FALSE]
    ELSE LET r == _process_command(D, request.command, spawn_ok, pid)
         IN  [daemon |-> r.daemon, response |-> r.response, dispatched |-> TRUE]

\* start(): the daemon process with a new SaviorDaemon object
DaemonStart ==
    /\ ~running
    /\ running' = TRUE
    /\ processes' = {}
    /\ call' = [op |-> "start"]
    /\ UNCHANGED <<projects, watchers, outside>>
    /\ UNCHANGED <<tree, metadata, disk, now, created, rs>>
    /\ UNCHANGED <<storeVars, incrVars, sysVars>>

\* _handle_client(client) for the request the client sent
HandleClient(request, spawn_ok, pid) ==
    LET r == HandleRequest(TheDaemon, request, spawn_ok, pid)
    IN  /\ running
        /\ pid \notin watchers
        /\ projects' = r.daemon.projects
        /\ processes' = r.daemon.processes
        /\ watchers' = r.daemon.watchers
        /\ running' = r.daemon.running
        /\ call' = [op |-> "_handle_client", request |-> request,
                    response |-> r.response, dispatched |-> r.dispatched]
        /\ UNCHANGED <<tree, metadata, disk, now, created, rs, outside>>
        /\ UNCHANGED <<storeVars, incrVars, sysVars>>

\* a watcher process ends by itself
WatcherExits(pid) ==
    /\ pid \in watchers
    /\ watchers' = watchers \ {pid}
    /\ call' = [op |-> "watcher_exit"]
    /\ UNCHANGED <<projects, processes, running, outside>>
    /\ UNCHANGED <<tree, metadata, disk, now, created, rs>>
    /\ UNCHANGED <<storeVars, incrVars, sysVars>>

NextDaemon ==
    \/ DaemonStart
    \/ \E request \in Requests, spawn_ok \in BOOLEAN, pid \in Pids :
          HandleClient(request, spawn_ok, pid)
    \/ \E pid \in Pids : WatcherExits(pid)

SpecDaemon == InitEngine /\ [][NextDaemon]_vars

\* the request carries the daemon's token in its auth field
CarriesToken(request) ==
    /\ request.json = "object"
    /\ "auth" \in DOMAIN request.command
    /\ request.command["auth"] = AuthToken

\* C9: a request whose auth field is missing or differs from the daemon's
\* token is answered with the authentication failure and is never passed to
\* the command dispatcher: the registry, the watcher processes and the
\* running state stay as they are, whatever the type of the request.
C9_UnauthenticatedNotDispatched ==
    [][(call'.op = "_handle_client" /\ ~CarriesToken(call'.request))
       => /\ call'.request.json = "object"
             => call'.response = "error: Authentication failed"
          /\ ~call'.dispatched
          /\ projects' = projects
          /\ processes' = processes
          /\ watchers' = watchers
          /\ running' = running]_vars

\* a stop request without auth field was refused while projects are watched
C9_Witness ==
    /\ call.op = "_handle_client"
    /\ call.request.json = "object"
    /\ "auth" \notin DOMAIN call.request.command
    /\ call.request.command["type"] = "stop"
    /\ call.response = "error: Authentication failed"
    /\ running
    /\ DOMAIN projects # {}
    /\ watchers # {}

(***************************************************************************)
(* Savior._cleanup_old_backups on a long backup history                    *)
(***************************************************************************)

\* the project of the history: the day the backups were made on is the 7th
\* or the 8th of the month
HistoryDays == {6, 7}

\* the times of day (in ticks) of the older backups of the history: 06:00,
\* 06:01, 07:00 and 13:00; any of them may have been made
OlderTimes == <<6 * TicksPerHour, 6 * TicksPerHour + TicksPerMinute,
                7 * TicksPerHour, 13 * TicksPerHour>>

\* the ten backups made last, one a minute from 20:00 on
LatestTimes == [i \in 1..KeepRecent |-> 20 * TicksPerHour + (i - 1) * TicksPerMinute]

\* the record and the archive of create_backup("", 6) at time t
HistoryRecord(t) == BackupRecord(t, BackupPath(t, "", 6), "")

\* the records of create_backup at the times chosen of day `day`, in the
\* order they were made; every backup is younger than 24 hours at the last
\* one, so each cleanup so far kept them all and saved them newest first
History(day, chosen) ==
    LET IsChosen(o) == o \in chosen
        times == SelectSeq(OlderTimes, IsChosen) \o LatestTimes
    IN  [i \in 1..Len(times) |-> HistoryRecord(day * TicksPerDay + times[i])]

InitRetention ==
    /\ InitStoreVars
    /\ InitRestVars
    /\ tree = [p \in {"a.py"} |-> 1]
    /\ \E day \in HistoryDays,
          chosen \in SUBSET {OlderTimes[i] : i \in 1..Len(OlderTimes)} :
          /\ metadata = SortedNewestFirst(History(day, chosen))
          /\ disk = [q \in PathsOf(metadata) |-> TarArchive(6, tree)]
          /\ now = day * TicksPerDay + LatestTimes[KeepRecent]
    /\ created = 0
    /\ call = [op |-> "create_backup", ret |-> "ok", backup |-> metadata[1]]
    /\ rs = [pc |-> "idle"]

\* time passes without a backup
Wait(days) ==
    /\ rs.pc = "idle"
    /\ now + days * TicksPerDay <= MaxDays * TicksPerDay
    /\ now' = now + days * TicksPerDay
    /\ call' = [op |-> "wait"]
    /\ UNCHANGED <<tree, metadata, disk, created, rs>>
    /\ UNCHANGED <<storeVars, restVars>>

\* _cleanup_old_backups()
Cleanup ==
    LET c == CleanupOldBackups(metadata, disk, now)
    IN  /\ rs.pc = "idle"
        /\ metadata' = c.backups
        /\ disk' = c.disk
        /\ call' = [op |-> "_cleanup_old_backups",
                    removed_count |-> Cardinality(DOMAIN disk \ DOMAIN c.disk)]
        /\ UNCHANGED <<tree, now, created, rs>>
        /\ UNCHANGED <<storeVars, restVars>>

NextRetention ==
    \/ \E days \in {1, 7} : Wait(days)
    \/ Cleanup
    \/ \E has_space \in BOOLEAN :
          /\ created < MaxLateCreates
          /\ CreateBackup("", 6, 1, has_space)

SpecRetention == InitRetention /\ [][NextRetention]_vars

(***************************************************************************)
(* Properties of the retention cleanup (SpecRetention).                    *)
(***************************************************************************)

\* the records outside the 10 most recent
OutsideRecent(backups) == Records(Drop(SortedNewestFirst(backups), KeepRecent))

Age(b) == now - b.timestamp

\* the record and the archive of b are there after the step
KeptByStep(b) == b \in Records(metadata') /\ b.path \in DOMAIN disk'

InSixHourTier(b) == Age(b) >= 24 * TicksPerHour /\ Age(b) < 7 * TicksPerDay
InWeekTier(b) == Age(b) >= 7 * TicksPerDay /\ Age(b) < 30 * TicksPerDay

SixHourBucket(b) == b.timestamp \div (6 * TicksPerHour)
CalendarWeek(b) == b.timestamp \div (7 * TicksPerDay)

\* C11: for the backups outside the 10 most recent the cleanup applies the
\* tiers exactly: older than 30 days is deleted, younger than 24 hours is
\* kept, between 24 hours and 7 days exactly one backup is kept per 6-hour
\* bucket that holds a backup, between 7 and 30 days exactly one per
\* calendar week that holds a backup.
C11_TiersExact ==
    [][call'.op = "_cleanup_old_backups"
       => \A b \in OutsideRecent(metadata) :
             /\ Age(b) > 30 * TicksPerDay => ~KeptByStep(b)
             /\ Age(b) < 24 * TicksPerHour => KeptByStep(b)
             /\ InSixHourTier(b) =>
                   Cardinality({c \in OutsideRecent(metadata) :
                                   /\ InSixHourTier(c)
                                   /\ SixHourBucket(c) = SixHourBucket(b)
                                   /\ KeptByStep(c)}) = 1
             /\ InWeekTier(b) =>
                   Cardinality({c \in OutsideRecent(metadata) :
                                   /\ InWeekTier(c)
                                   /\ CalendarWeek(c) = CalendarWeek(b)
                                   /\ KeptByStep(c)}) = 1]_vars

\* C18: a create_backup call that fails because the project has no files
\* or because the disk space is insufficient writes nothing: it raises the
\* error, and the backup records and the archives are as before the call.
C18_FailedCreateWritesNothing ==
    [][(call'.op = "create_backup" /\ call'.ret \in {"ValueError", "IOError"})
       => /\ metadata' = metadata
          /\ disk' = disk]_vars

\* C12: for a fixed backup list and a fixed 'now' the cleanup produces one
\* kept-set, and a run of the cleanup on its own result removes nothing
\* further: the next run leaves the metadata and the archives as they are.
C12_CleanupIdempotent ==
    call.op = "_cleanup_old_backups"
    => /\ CleanupOldBackups(metadata, disk, now).backups = metadata
       /\ CleanupOldBackups(metadata, disk, now).disk = disk

\* a cleanup has removed backups outside the 10 most recent and kept others
C12_Witness ==
    /\ call.op = "_cleanup_old_backups"
    /\ Len(metadata) > KeepRecent
    /\ call.removed_count > 0

(***************************************************************************)
(* savior/core.py : Savior.list_backups, and create_backup when the        *)
(* process is killed                                                       *)
(***************************************************************************)

\* desc.replace('-', ' ').title() of a file stem
Title(name) == IF name = "v1" THEN "V1" ELSE name

\* the scan of the "[HH:MM] [MM-DD-YYYY]" folders: one Backup per *.tar*
\* file, its timestamp the minute of the folder name
FolderBackups(d) ==
    {[timestamp |-> x.key * TicksPerMinute, path |-> x,
      description |-> IF x.name = "backup" THEN "Manual backup"
                      ELSE Title(x.name)] :
        x \in {y \in DOMAIN d : y.dir = "folder"}}

\* the lists of the records of S, newest first; the order of records of one
\* timestamp is the order the directory was read in
NewestFirstOrders(S) ==
    {L \in [1..Cardinality(S) -> S] :
        /\ \A i, j \in 1..Cardinality(S) : i # j => L[i] # L[j]
        /\ \A i, j \in 1..Cardinality(S) :
              i < j => L[i].timestamp >= L[j].timestamp}

\* the results list_backups can return: the metadata sorted newest first,
\* or, "if metadata is empty", the scan of the backup directory
Listings(backups, d) ==
    IF backups # <<>> THEN {SortedNewestFirst(backups)}
    ELSE NewestFirstOrders(FolderBackups(d))

\* list_backups()
ListBackups ==
    /\ rs.pc = "idle"
    /\ \E L \in Listings(metadata, disk) :
          call' = [op |-> "list_backups", ret |-> L]
    /\ UNCHANGED <<tree, metadata, disk, now, created, rs>>
    /\ UNCHANGED <<storeVars, restVars>>

\* create_backup(description, compression_level) whose process is killed
\* while tarfile writes the archive: the files of `written` are in the file
\* at backup_path, the archive is not closed, no record is appended
CreateBackupKilled(d, level, jump, written) ==
    LET t == now + jump
        c1 == CleanupOldBackups(metadata, disk, t)
        backup_path == BackupPath(t, d, level)
    IN  /\ rs.pc = "idle"
        /\ DOMAIN tree # {}
        /\ written \subseteq DOMAIN tree
        /\ written # DOMAIN tree
        /\ created' = created + 1
        /\ now' = t
        /\ metadata' = c1.backups
        /\ disk' = DictPut(c1.disk, backup_path,
                           [format |-> "truncated",
                            members |-> [p \in written |-> tree[p]]])
        /\ call' = [op |-> "create_backup", ret |-> "killed"]
        /\ UNCHANGED <<tree, rs>>
        /\ UNCHANGED <<storeVars, restVars>>

\* the compression levels of the listed project: none and the default
ListedLevels == {0, 6}

\* A project of one file whose backups are listed and restored, and whose
\* backup process can be killed.
NextListing ==
    \/ \E c \in TreeContents : WriteFile("a.py", c)
    \/ DeleteFile("a.py")
    \/ \E d \in Descriptions, level \in ListedLevels, jump \in ClockJumps,
          has_space \in BOOLEAN :
          created < MaxCreates /\ CreateBackup(d, level, jump, has_space)
    \/ \E d \in Descriptions, level \in ListedLevels, jump \in ClockJumps,
          written \in SUBSET {"a.py"} :
          created < MaxCreates /\ CreateBackupKilled(d, level, jump, written)
    \/ ListBackups
    \/ \E i \in Indexes : RestoreBegin(i, FALSE, FALSE, FALSE)
    \/ RestoreRemove
    \/ RestoreCopy

SpecListing == InitEngine /\ [][NextListing]_vars

(***************************************************************************)
(* Properties of list_backups (SpecListing).                               *)
(***************************************************************************)

IsNewestFirst(L) ==
    \A i, j \in 1..Len(L) : i < j => L[i].timestamp >= L[j].timestamp

\* C13: list_backups returns every recorded backup, newest first;
\* restore_backup(i) restores exactly the backup list_backups returns at
\* position i; an index outside 0..count-1 makes restore_backup return
\* False with the working tree unchanged.
C13_ListedOrderAndRestore ==
    /\ [](call.op = "list_backups"
          => /\ IsNewestFirst(call.ret)
             /\ Len(call.ret) = Len(metadata)
             /\ Records(call.ret) = Records(metadata))
    /\ [][(rs.pc = "idle" /\ rs'.pc # "idle")
          => \E L \in Listings(metadata, disk) :
                /\ rs'.index \in 0..(Len(L) - 1)
                /\ L[rs'.index + 1] = rs'.backup]_vars
    /\ [][(call'.op = "restore_backup" /\ call'.ret = FALSE)
          => /\ tree' = tree
             /\ \A L \in Listings(metadata, disk) :
                   call'.index \notin 0..(Len(L) - 1)]_vars
    /\ [](call.op = "restore_backup" /\ call.ret = TRUE
          => tree = call.backup_files)

\* an archive create_backup has completely written and recorded
CompletelyWritten(b) ==
    /\ b.path \in DOMAIN disk
    /\ disk[b.path].format # "truncated"

\* C17: a backup whose archive has not been completely written never
\* appears in the result of list_backups, whether or not the project has
\* recorded backups.
C17_InterruptedNotListed ==
    call.op = "list_backups"
    => \A i \in 1..Len(call.ret) : CompletelyWritten(call.ret[i])

(***************************************************************************)
(* Properties of create_backup (SpecEngine).                               *)
(***************************************************************************)

\* C19: once create_backup has recorded a backup, no later create_backup
\* modifies, replaces or truncates its archive: every successful
\* create_backup writes to a path no existing record refers to, also within
\* one minute with one description, and the number of listed backups grows
\* by exactly one.
C19_ArchivesImmutable ==
    [][(call'.op = "create_backup" /\ call'.ret = "ok")
       => /\ call'.backup.path \notin PathsOf(metadata)
          /\ \A b \in Records(metadata) :
                (b.path \in DOMAIN disk /\ b.path \in DOMAIN disk')
                   => disk'[b.path] = disk[b.path]
          /\ Len(metadata') = Len(metadata) + 1]_vars

(***************************************************************************)
(* Properties of the conflict resolution of restore_backup (SpecRestore).  *)
(***************************************************************************)

\* C20: when restore_backup runs with conflict checking under the suggested
\* strategy, the files that are new in the working tree are kept: every
\* path reported as kept still exists with unchanged content after the
\* restore has returned.
C20_KeptFilesSurvive ==
    (call.op = "restore_backup" /\ call.ret = TRUE)
    => \A p \in call.kept :
          /\ p \in DOMAIN tree
          /\ tree[p] = call.pre_tree[p]

(***************************************************************************)
(* savior/core.py, savior/dedup.py : saving and loading metadata.json and  *)
(* the dedup index, one system call at a time, with processes that can be  *)
(* killed between any two of them.  A document is a number; 0 is the       *)
(* default document a loader returns when it finds nothing it can parse.   *)
(***************************************************************************)

\* the variables of the other components
modelVars == <<storeVars, engineVars, incrVars, daemonVars, outside, concVars>>

Docs == 1..NumDocs
Writers == 1..NumWriters

\* tempfile.mkstemp(dir=self.backup_dir, prefix='.metadata_', suffix='.tmp')
TempPaths == {".metadata_a.tmp", ".metadata_b.tmp"}

\* a file that holds the whole JSON text of document d
Whole(d) == [part |-> "whole", doc |-> d]
\* a file that holds a proper prefix of the JSON text of document d
Torn(d) == [part |-> "torn", doc |-> d]
\* a file of length 0
EmptyFile == [part |-> "empty", doc |-> 0]

\* json.load of a file: the document, or JSONDecodeError
Parses(file) == file.part = "whole"

\* os.unlink(path) / Path.unlink of an existing file
RemoveFile(files, path) == [f \in DOMAIN files \ {path} |-> files[f]]

\* open(path, 'w'), write, os.replace: the file at path becomes `file`
PutFile(files, path, file) ==
    [f \in DOMAIN files \cup {path} |-> IF f = path THEN file ELSE files[f]]

DumpTargetInPlace(temp_path) == "metadata.json"

\* os.fdopen(temp_fd, 'w', encoding='utf-8'): json.dump writes to the
\* temporary file
DumpTarget(temp_path) == temp_path

InSaveMetadata(w) == saver[w].pc \in {"mkstemp", "dumping", "dumped"}
InSaveIndex(w) == saver[w].pc \in {"opened", "writing"}

\* _save_metadata: tempfile.mkstemp creates an empty file under a name that
\* no file has
SaveMetadataMkstemp(w, d) ==
    /\ saver[w].pc = "idle"
    /\ \E temp_path \in TempPaths \ DOMAIN fsys :
        /\ fsys' = PutFile(fsys, temp_path, EmptyFile)
        /\ saver' = [saver EXCEPT ![w] =
                        [pc |-> "mkstemp", doc |-> d, temp_path |-> temp_path]]
    /\ UNCHANGED <<loaded, modelVars, lockVars>>

\* _save_metadata: json.dump, a first part of the text reaches the file
SaveMetadataDump(w) ==
    /\ saver[w].pc = "mkstemp"
    /\ fsys' = PutFile(fsys, DumpTarget(saver[w].temp_path), Torn(saver[w].doc))
    /\ saver' = [saver EXCEPT ![w].pc = "dumping"]
    /\ UNCHANGED <<loaded, modelVars, lockVars>>

\* _save_metadata: the end of the with block flushes the rest and closes
SaveMetadataClose(w) ==
    /\ saver[w].pc \in {"mkstemp", "dumping"}
    /\ fsys' = PutFile(fsys, DumpTarget(saver[w].temp_path), Whole(saver[w].doc))
    /\ saver' = [saver EXCEPT ![w].pc = "dumped"]
    /\ UNCHANGED <<loaded, modelVars, lockVars>>

\* _save_metadata: os.replace(temp_path, self.metadata_file)
SaveMetadataReplace(w) ==
    /\ saver[w].pc = "dumped"
    /\ fsys' = RemoveFile(PutFile(fsys, "metadata.json", fsys[saver[w].temp_path]),
                          saver[w].temp_path)
    /\ saver' = [saver EXCEPT ![w] = [pc |-> "idle"]]
    /\ UNCHANGED <<loaded, modelVars, lockVars>>

\* _save_metadata: json.dump raises (the disk is full); the except clause
\* unlinks the temporary file and raises again
SaveMetadataFails(w) ==
    /\ saver[w].pc \in {"mkstemp", "dumping"}
    /\ fsys' = RemoveFile(fsys, saver[w].temp_path)
    /\ saver' = [saver EXCEPT ![w] = [pc |-> "idle"]]
    /\ UNCHANGED <<loaded, modelVars, lockVars>>

\* _save_index: open(self.index_file, 'w') truncates index.json; one save
\* at a time (with self._lock)
SaveIndexOpen(w, d) ==
    /\ saver[w].pc = "idle"
    /\ \A v \in Writers : ~InSaveIndex(v)
    /\ fsys' = PutFile(fsys, "index.json", EmptyFile)
    /\ saver' = [saver EXCEPT ![w] = [pc |-> "opened", doc |-> d]]
    /\ UNCHANGED <<loaded, modelVars, lockVars>>

\* _save_index: json.dump, a first part of the text reaches index.json
SaveIndexDump(w) ==
    /\ saver[w].pc = "opened"
    /\ fsys' = PutFile(fsys, "index.json", Torn(saver[w].doc))
    /\ saver' = [saver EXCEPT ![w].pc = "writing"]
    /\ UNCHANGED <<loaded, modelVars, lockVars>>

\* _save_index: the end of the with block flushes the rest and closes
SaveIndexClose(w) ==
    /\ saver[w].pc \in {"opened", "writing"}
    /\ fsys' = PutFile(fsys, "index.json", Whole(saver[w].doc))
    /\ saver' = [saver EXCEPT ![w] = [pc |-> "idle"]]
    /\ UNCHANGED <<loaded, modelVars, lockVars>>

\* the process is killed inside _save_metadata or _save_index: the files
\* stay as they are, no except clause runs
Crash(w) ==
    /\ saver[w].pc # "idle"
    /\ saver' = [saver EXCEPT ![w] = [pc |-> "idle"]]
    /\ UNCHANGED <<fsys, loaded, modelVars, lockVars>>

\* _load_metadata: the document of metadata.json, or the default document
\* when the file is missing or json.load raises JSONDecodeError
LoadMetadata ==
    /\ loaded' = IF "metadata.json" \notin DOMAIN fsys
                 THEN [op |-> "_load_metadata", ret |-> 0, corrupted |-> FALSE]
                 ELSE IF Parses(fsys["metadata.json"])
                 THEN [op |-> "_load_metadata", ret |-> fsys["metadata.json"].doc,
                       corrupted |-> FALSE]
                 ELSE [op |-> "_load_metadata", ret |-> 0, corrupted |-> TRUE]
    /\ UNCHANGED <<fsys, saver, modelVars, lockVars>>

\* _load_index of a process that has no _index_cache yet: the document of
\* index.json, or {} on JSONDecodeError / IOError
LoadIndex ==
    /\ loaded' = IF "index.json" \in DOMAIN fsys /\ Parses(fsys["index.json"])
                 THEN [op |-> "_load_index", ret |-> fsys["index.json"].doc,
                       corrupted |-> FALSE]
                 ELSE [op |-> "_load_index", ret |-> 0, corrupted |-> TRUE]
    /\ UNCHANGED <<fsys, saver, modelVars, lockVars>>

InitPersist ==
    /\ InitStoreVars
    /\ InitEngineVars
    /\ InitRestVars

NextPersist ==
    \/ \E w \in Writers, d \in Docs : SaveMetadataMkstemp(w, d)
    \/ \E w \in Writers : SaveMetadataDump(w)
    \/ \E w \in Writers : SaveMetadataClose(w)
    \/ \E w \in Writers : SaveMetadataReplace(w)
    \/ \E w \in Writers : SaveMetadataFails(w)
    \/ \E w \in Writers, d \in Docs : SaveIndexOpen(w, d)
    \/ \E w \in Writers : SaveIndexDump(w)
    \/ \E w \in Writers : SaveIndexClose(w)
    \/ \E w \in Writers : Crash(w)
    \/ LoadMetadata
    \/ LoadIndex

SpecPersist == InitPersist /\ [][NextPersist]_vars

\* C14: metadata.json is replaced atomically: at any moment, also inside
\* _save_metadata and after a process was killed at any step of it, the
\* file is missing (never saved) or holds a complete document that was
\* handed to _save_metadata, and _load_metadata never meets a document it
\* cannot parse.
C14_MetadataReplacedAtomically ==
    /\ "metadata.json" \in DOMAIN fsys =>
          /\ fsys["metadata.json"].part = "whole"
          /\ fsys["metadata.json"].doc \in Docs
    /\ loaded.op = "_load_metadata" => ~loaded.corrupted

\* C14: a process was killed while its temporary file held a part of the
\* new document, another save has replaced metadata.json since, and a
\* reader has loaded that document
C14_Witness ==
    /\ \E t \in TempPaths \cap DOMAIN fsys :
          /\ fsys[t].part = "torn"
          /\ \A w \in Writers : InSaveMetadata(w) => saver[w].temp_path # t
    /\ "metadata.json" \in DOMAIN fsys
    /\ loaded.op = "_load_metadata"
    /\ loaded.ret = fsys["metadata.json"].doc
    /\ loaded.ret \in Docs

\* C15: the dedup index is saved by atomic replace: whenever no save of the
\* index is in progress, also after a process was killed inside
\* _save_index, index.json holds a complete index, never an empty or torn
\* one.
C15_IndexReplacedAtomically ==
    (\A w \in Writers : ~InSaveIndex(w))
    => /\ "index.json" \in DOMAIN fsys
       /\ fsys["index.json"].part = "whole"

(***************************************************************************)
(* savior/safety.py : FileLock.acquire and FileLock.release, one system    *)
(* call at a time, by several processes on one lock file.                  *)
(***************************************************************************)

Procs == 1..NumProcs

NoLockFile == [exists |-> FALSE]

\* os.open(self.lockfile, O_CREAT | O_EXCL | O_RDWR) of process p succeeded:
\* a new, still empty file (pid 0 stands for no text)
CreatedBy(p) == [exists |-> TRUE, creator |-> p, pid |-> 0]

\* psutil.pid_exists(pid)
pid_exists(pid) == locker[pid].pc # "dead"

\* self.acquired of process p
Acquired(p) == locker[p].pc = "held"

\* acquire: os.open with O_CREAT | O_EXCL, at the start of a turn of the
\* while loop; FileExistsError leads into the except clause
AcquireOpen(p) ==
    /\ locker[p].pc \in {"idle", "sleep"}
    /\ IF lockfile.exists
       THEN /\ locker' = [locker EXCEPT ![p] = [pc |-> "except"]]
            /\ UNCHANGED lockfile
       ELSE /\ lockfile' = CreatedBy(p)
            /\ locker' = [locker EXCEPT ![p] = [pc |-> "opened"]]
    /\ UNCHANGED <<modelVars, persistVars>>

\* acquire: os.write(self.fd, pid), fcntl.flock of the file the process
\* has created itself (no other process has it open for locking), and
\* self.acquired = True.  The write goes to the open file, also when its
\* name has been unlinked in the meantime.
AcquireWritePid(p) ==
    /\ locker[p].pc = "opened"
    /\ lockfile' = IF lockfile.exists /\ lockfile.creator = p
                   THEN [lockfile EXCEPT !.pid = p]
                   ELSE lockfile
    /\ locker' = [locker EXCEPT ![p] = [pc |-> "held"]]
    /\ UNCHANGED <<modelVars, persistVars>>

\* acquire, except clause: self.lockfile.exists(), then pid = int(f.read());
\* a missing file, or an empty one (ValueError), leads to the sleep
AcquireReadPid(p) ==
    /\ locker[p].pc = "except"
    /\ locker' = [locker EXCEPT ![p] =
                    IF lockfile.exists /\ lockfile.pid # 0
                    THEN [pc |-> "read", pid |-> lockfile.pid]
                    ELSE [pc |-> "sleep"]]
    /\ UNCHANGED <<lockfile, modelVars, persistVars>>

\* acquire, except clause: if not psutil.pid_exists(pid)
AcquirePidExists(p) ==
    /\ locker[p].pc = "read"
    /\ locker' = [locker EXCEPT ![p] =
                    IF pid_exists(locker[p].pid)
                    THEN [pc |-> "sleep"]
                    ELSE [pc |-> "stale"]]
    /\ UNCHANGED <<lockfile, modelVars, persistVars>>

\* acquire, except clause: self.lockfile.unlink() of the lock presumed
\* stale (FileNotFoundError is swallowed), then the sleep
AcquireUnlinkStale(p) ==
    /\ locker[p].pc = "stale"
    /\ lockfile' = NoLockFile
    /\ locker' = [locker EXCEPT ![p] = [pc |-> "sleep"]]
    /\ UNCHANGED <<modelVars, persistVars>>

\* acquire: the timeout has passed, return False
AcquireTimeout(p) ==
    /\ locker[p].pc = "sleep"
    /\ locker' = [locker EXCEPT ![p] = [pc |-> "idle"]]
    /\ UNCHANGED <<lockfile, modelVars, persistVars>>

\* release: unlock and close the descriptor, then unlink self.lockfile if
\* a file of that name exists
Release(p) ==
    /\ Acquired(p)
    /\ lockfile' = NoLockFile
    /\ locker' = [locker EXCEPT ![p] = [pc |-> "idle"]]
    /\ UNCHANGED <<modelVars, persistVars>>

\* a process dies at any point, the lock file stays
Die(p) ==
    /\ locker[p].pc # "dead"
    /\ Cardinality({q \in Procs : locker[q].pc = "dead"}) < MaxDeaths
    /\ locker' = [locker EXCEPT ![p] = [pc |-> "dead"]]
    /\ UNCHANGED <<lockfile, modelVars, persistVars>>

InitLock ==
    /\ InitStoreVars
    /\ InitEngineVars
    /\ InitRestVars

NextLock ==
    \/ \E p \in Procs : AcquireOpen(p)
    \/ \E p \in Procs : AcquireWritePid(p)
    \/ \E p \in Procs : AcquireReadPid(p)
    \/ \E p \in Procs : AcquirePidExists(p)
    \/ \E p \in Procs : AcquireUnlinkStale(p)
    \/ \E p \in Procs : AcquireTimeout(p)
    \/ \E p \in Procs : Release(p)
    \/ \E p \in Procs : Die(p)

SpecLock == InitLock /\ [][NextLock]_vars

\* C16: at most one process holds the FileLock of a project at any time,
\* under every interleaving of acquire and release, also while a stale
\* lock of a dead owner is reclaimed by several contenders; and a release
\* by one process never removes the lock file of another process that
\* holds the lock.
C16_MutualExclusion ==
    /\ [](Cardinality({p \in Procs : Acquired(p)}) <= 1)
    /\ [][\A p, q \in Procs :
            (/\ Acquired(p) /\ ~Acquired(p)'
             /\ locker'[p].pc = "idle"
             /\ q # p /\ Acquired(q)
             /\ lockfile.exists /\ lockfile.creator = q)
            => lockfile' = lockfile]_vars

(***************************************************************************)
(* Properties of the restores with respect to conflict detection           *)
(* (SpecDedup, SpecRestore).                                               *)
(***************************************************************************)

\* the restore in progress was asked to skip the conflict check
\* (force = True, or check_conflicts = False), or has run the detection
ForcedOrDetected ==
    /\ rs.pc # "idle"
    /\ (rs.force \/ ~rs.check_conflicts \/ rs.detected)

\* C21: every restore that is not explicitly forced, through restore_backup
\* and through restore_backup_dedup alike, runs the conflict detection
\* against the working tree before it modifies a file of the working tree.
C21_DetectionBeforeRestore ==
    [][(/\ call'.op \in {"restore_remove", "restore_backup", "restore_backup_dedup"}
        /\ tree' # tree)
       => ForcedOrDetected]_vars

(***************************************************************************)
(* Properties of the result of store_file (SpecStore).                     *)
(***************************************************************************)

\* C22: store_file reports deduplicated = true exactly when the index held
\* an entry for the content hash of the file before the call, also when the
\* earlier store was made under the same backup id, and deduplicated =
\* false exactly when the call created the chunk.
C22_DeduplicatedIffPresent ==
    [][storeCall'.op = "store_file"
       => (storeCall'.ret.deduplicated <=> storeCall'.hash \in DOMAIN index)]_vars

(***************************************************************************)
(* Properties of the responses of the daemon (SpecDaemon).                 *)
(***************************************************************************)

\* C26: every request the daemon starts handling, authenticated or not,
\* well-formed or malformed, a stop request included, is answered with one
\* structured response (a status or an error object) before its connection
\* is closed.
C26_EveryRequestAnswered ==
    call.op = "_handle_client" => call.response # "no response"

(***************************************************************************)
(* savior/daemon.py : the accept loop of _start_server.  A handler thread  *)
(* is a number; client_threads maps the threads of the list to is_alive(). *)
(***************************************************************************)

\* the variables the accept loop and the handlers of the daemon leave alone
besideDaemon == <<storeVars, tree, metadata, disk, now, created, rs, incrVars,
                  outside, persistVars, lockVars, cache>>

\* the handler threads that are running
Running(ct) == {t \in DOMAIN ct : ct[t]}

AtConnectionCapAboveTen(ct) == Cardinality(DOMAIN ct) > MaxClientThreads

\* if len(self.client_threads) >= 10
AtConnectionCap(ct) == Cardinality(DOMAIN ct) >= MaxClientThreads

\* self.client_threads = [t for t in self.client_threads if t.is_alive()]
AliveOnly(ct) == [t \in Running(ct) |-> TRUE]

\* server.accept() returns a connection: it is closed when the list is at
\* the cap; otherwise a handler thread is started and appended, and the
\* finished threads are dropped from the list
Accept ==
    /\ running
    /\ connections < MaxConnections
    /\ connections' = connections + 1
    /\ IF AtConnectionCap(client_threads)
       THEN /\ client_threads' = client_threads
            /\ call' = [op |-> "accept", handled |-> FALSE]
       ELSE /\ client_threads' =
                AliveOnly([t \in DOMAIN client_threads \cup {connections + 1} |->
                             IF t = connections + 1 THEN TRUE
                             ELSE client_threads[t]])
            /\ call' = [op |-> "accept", handled |-> TRUE]
    /\ UNCHANGED <<projects, processes, watchers, running, threads, spawned>>
    /\ UNCHANGED besideDaemon

\* _handle_client of thread t returns: the thread is no longer alive
HandlerReturns(t) ==
    /\ t \in Running(client_threads)
    /\ client_threads' = [client_threads EXCEPT ![t] = FALSE]
    /\ call' = [op |-> "handler_return"]
    /\ UNCHANGED <<projects, processes, watchers, running, threads, spawned,
                   connections>>
    /\ UNCHANGED besideDaemon

NextAccept ==
    \/ DaemonStart
    \/ Accept
    \/ \E t \in 1..MaxConnections : HandlerReturns(t)

SpecAccept == InitEngine /\ [][NextAccept]_vars

C30_CapNotSticky ==
    [][(/\ call'.op = "accept"
        /\ connections' = connections + 1
        /\ Cardinality(Running(client_threads)) < MaxClientThreads)
       => call'.handled]_vars

(***************************************************************************)
(* savior/core.py : create_backup calls that overlap in time (the watch    *)
(* thread and the initial or a manual backup, or two processes), one load  *)
(* or save of metadata.json at a time.                                     *)
(***************************************************************************)

Threads == 1..NumThreads

\* the variables overlapping create_backup calls leave alone
besideOverlap == <<storeVars, tree, created, rs, incrVars, daemonVars, outside,
                   persistVars, lockVars, client_threads, connections, spawned,
                   cache>>

\* the description of the calls of a thread: the watch loop passes
\* "Automatic backup" (the model's ""), the other callers a text of their own
ThreadDescription(t) == IF t = 1 THEN "" ELSE "v1"

\* _cleanup_old_backups, first half: metadata = self._load_metadata(); a
\* thread makes one call of create_backup in a run
CleanupLoad(t) ==
    /\ threads[t].pc \in {"idle", "trail"}
    /\ threads[t].pc = "idle" => DOMAIN threads[t] = {"pc"}
    /\ threads' = [threads EXCEPT ![t] =
                     IF threads[t].pc = "idle"
                     THEN [pc |-> "lead_loaded", metadata |-> metadata]
                     ELSE [pc |-> "trail_loaded", metadata |-> metadata,
                           backup |-> threads[t].backup]]
    /\ call' = [op |-> "_load_metadata", thread |-> t]
    /\ UNCHANGED <<metadata, disk, now>>
    /\ UNCHANGED besideOverlap

\* _cleanup_old_backups, second half: the tiers over the list that was
\* loaded, the unlinks, and self._save_metadata(metadata); after the trailing
\* cleanup create_backup returns the backup
CleanupSave(t) ==
    LET c == CleanupOldBackups(threads[t].metadata, disk, now)
    IN  /\ threads[t].pc \in {"lead_loaded", "trail_loaded"}
        /\ metadata' = c.backups
        /\ disk' = c.disk
        /\ IF threads[t].pc = "lead_loaded"
           THEN /\ threads' = [threads EXCEPT ![t] = [pc |-> "collect"]]
                /\ call' = [op |-> "_cleanup_old_backups", thread |-> t]
           ELSE /\ threads' = [threads EXCEPT ![t] =
                                 [pc |-> "idle", backup |-> threads[t].backup]]
                /\ call' = [op |-> "create_backup", ret |-> "ok", thread |-> t,
                            backup |-> threads[t].backup]
        /\ UNCHANGED now
        /\ UNCHANGED besideOverlap

\* create_backup from _collect_files to the end of the with block of
\* tarfile.open: ValueError without files, IOError without space, or the
\* archive at backup_path
WriteArchive(t, level, jump, has_space) ==
    LET ts == now + jump
        d == ThreadDescription(t)
        backup_path == BackupPath(ts, d, level)
    IN  /\ threads[t].pc = "collect"
        /\ now' = ts
        /\ IF DOMAIN tree = {} \/ ~has_space
           THEN /\ threads' = [threads EXCEPT ![t] =
                                 [pc |-> "idle", raised |-> TRUE]]
                /\ call' = [op |-> "create_backup", thread |-> t,
                            ret |-> IF DOMAIN tree = {} THEN "ValueError"
                                    ELSE "IOError"]
                /\ UNCHANGED disk
           ELSE /\ threads' = [threads EXCEPT ![t] =
                                 [pc |-> "written",
                                  backup |-> BackupRecord(ts, backup_path, d)]]
                /\ disk' = DictPut(disk, backup_path, TarArchive(level, tree))
                /\ call' = [op |-> "tarfile.open", thread |-> t]
        /\ UNCHANGED metadata
        /\ UNCHANGED besideOverlap

\* create_backup: metadata = self._load_metadata()
AppendLoad(t) ==
    /\ threads[t].pc = "written"
    /\ threads' = [threads EXCEPT ![t] =
                     [pc |-> "append_loaded", metadata |-> metadata,
                      backup |-> threads[t].backup]]
    /\ call' = [op |-> "_load_metadata", thread |-> t]
    /\ UNCHANGED <<metadata, disk, now>>
    /\ UNCHANGED besideOverlap

\* create_backup: metadata['backups'].append(backup.to_dict()) and
\* self._save_metadata(metadata)
AppendSave(t) ==
    /\ threads[t].pc = "append_loaded"
    /\ metadata' = Append(threads[t].metadata, threads[t].backup)
    /\ threads' = [threads EXCEPT ![t] =
                     [pc |-> "trail", backup |-> threads[t].backup]]
    /\ call' = [op |-> "_save_metadata", thread |-> t]
    /\ UNCHANGED <<disk, now>>
    /\ UNCHANGED besideOverlap

NextOverlap ==
    \/ \E c \in TreeContents : WriteFile("a.py", c)
    \/ \E t \in Threads : CleanupLoad(t)
    \/ \E t \in Threads : CleanupSave(t)
    \/ \E t \in Threads, level \in {0, 6}, jump \in ClockJumps,
          has_space \in BOOLEAN : WriteArchive(t, level, jump, has_space)
    \/ \E t \in Threads : AppendLoad(t)
    \/ \E t \in Threads : AppendSave(t)

SpecOverlap == InitEngine /\ [][NextOverlap]_vars

\* the backup thread t has got back from create_backup
Returned(t) == threads[t].pc = "idle" /\ "backup" \in DOMAIN threads[t]

\* C27: when create_backup calls on one project overlap in time, the
\* records of all of them are in the metadata afterwards: no record is lost
\* to a concurrent save and no concurrent retention run drops a record that
\* was just appended.
C27_NoRecordLost ==
    (\A t \in Threads : threads[t].pc = "idle")
    => \A t \in Threads :
          Returned(t) => \E i \in 1..Len(metadata) : metadata[i] = threads[t].backup

(***************************************************************************)
(* savior/dedup.py : store_file calls that overlap in time, by threads of  *)
(* one process (one DeduplicationStore, one _index_cache) or by processes  *)
(* that work on the same store directory.  The index a call works on is    *)
(* the _index_cache object of its process.                                 *)
(***************************************************************************)

\* the variables overlapping store_file calls leave alone
besideStore == <<engineVars, incrVars, daemonVars, outside, persistVars,
                 lockVars, client_threads, connections, spawned>>

\* the processes a worker can be a thread of: worker 1 is in process 1, a
\* later worker in process 1 as well or in a process of its own
ProcessesOf(w) == {1, w}

\* the index the call of worker w works on
IndexOf(w) == cache[threads[w].process].index

\* store_file up to the test `content_hash in index`: hash the file, load
\* the index (the cache, or index.json when the process has no cache yet)
StoreLoad(w, pr, c) ==
    LET h == _calculate_file_hash(c)
        idx == IF cache[pr].loaded THEN cache[pr].index ELSE index
    IN  /\ threads[w] = [pc |-> "idle"]
        /\ cache' = [cache EXCEPT ![pr] = [loaded |-> TRUE, index |-> idx]]
        /\ threads' = [threads EXCEPT ![w] =
                         [pc |-> IF h \in DOMAIN idx THEN "existing" ELSE "new",
                          process |-> pr, content |-> c, hash |-> h,
                          backup_id |-> w]]
        /\ storeCall' = [op |-> "_load_index", worker |-> w]
        /\ UNCHANGED <<index, chunks>>
        /\ UNCHANGED besideStore

\* store_file, new content: shutil.copy2(file_path, chunk_path)
StoreCopy(w) ==
    /\ threads[w].pc = "new"
    /\ chunks' = chunks \cup {threads[w].hash}
    /\ threads' = [threads EXCEPT ![w].pc = "copied"]
    /\ storeCall' = [op |-> "copy2", worker |-> w]
    /\ UNCHANGED <<index, cache>>
    /\ UNCHANGED besideStore

\* store_file: the entry of the hash in the index object, by the branch
\* taken: the owner is added and counted, or the entry is created
StoreUpdate(w) ==
    LET h == threads[w].hash
        S == [index |-> IndexOf(w), chunks |-> chunks]
        S2 == IF threads[w].pc = "existing" /\ h \in DOMAIN S.index
              THEN StoreExisting(S, h, threads[w].backup_id)
              ELSE StoreNew(S, h, SizeOf(threads[w].content), threads[w].backup_id)
    IN  /\ threads[w].pc \in {"existing", "copied"}
        /\ cache' = [cache EXCEPT ![threads[w].process].index = S2.index]
        /\ threads' = [threads EXCEPT ![w].pc = "updated"]
        /\ storeCall' = [op |-> "update", worker |-> w]
        /\ UNCHANGED <<index, chunks>>
        /\ UNCHANGED besideStore

\* store_file: self._save_index(index) and the return of the metadata
StoreSave(w) ==
    /\ threads[w].pc = "updated"
    /\ index' = IndexOf(w)
    /\ threads' = [threads EXCEPT ![w].pc = "returned"]
    /\ storeCall' = [op |-> "store_file", worker |-> w,
                     ret |-> StoreFileResult([index |-> IndexOf(w)],
                                             threads[w].content)]
    /\ UNCHANGED <<chunks, cache>>
    /\ UNCHANGED besideStore

NextStoreOverlap ==
    \/ \E w \in Threads, pr \in Threads, c \in Contents :
          pr \in ProcessesOf(w) /\ StoreLoad(w, pr, c)
    \/ \E w \in Threads : StoreCopy(w)
    \/ \E w \in Threads : StoreUpdate(w)
    \/ \E w \in Threads : StoreSave(w)

SpecStoreOverlap == InitStore /\ [][NextStoreOverlap]_vars

\* C28: the mutations of the index are serialized: store_file calls for
\* the same content, unseen before, under different backup ids that overlap
\* in time leave one chunk whose index entry counts all of them and has
\* their backup ids as owners.
C28_OverlappingStoresCounted ==
    (\A w \in Threads : /\ threads[w].pc = "returned"
                        /\ threads[w].hash = threads[1].hash)
    => /\ threads[1].hash \in chunks
       /\ threads[1].hash \in DOMAIN index
       /\ index[threads[1].hash].refs = {threads[w].backup_id : w \in Threads}
       /\ index[threads[1].hash].ref_count = NumThreads

(***************************************************************************)
(* savior/daemon.py : _add_project, _remove_project and _list_projects on  *)
(* handler threads that run at the same time, one load or save of          *)
(* projects.json, one Popen and one kill at a time.  A project path is a   *)
(* number here; path 0 stands for a directory the daemon refuses.          *)
(***************************************************************************)

\* the variables the handler threads of the daemon leave alone
besideHandlers == <<besideDaemon, client_threads, connections>>

\* the numbers of projects that are registered when the run starts
RegisteredAtStart == {0, max_projects - 1}

\* the paths of the requests: refused, registered at the start, and new
RequestPaths == {0, 1, max_projects, max_projects + 1}

\* _validate_project_path(path) for the paths of this section
ValidProject(path) == path >= 1

\* the pids the operating system gives to the watchers started in a run
NewPids == (max_projects + 1)..(max_projects + MaxSpawns)

\* the watchers that end by themselves in a run
DyingPids == {1, max_projects + 1}

\* process.pid of a Popen that succeeds
FreshPid == CHOOSE pid \in NewPids \ DOMAIN spawned :
                \A q \in NewPids \ DOMAIN spawned : pid <= q

\* the entries of a registry whose pid exists (psutil.pid_exists)
AliveEntries(reg, alive) ==
    [q \in {x \in DOMAIN reg : reg[x] \in alive} |-> reg[q]]

\* the responses that refuse a request
Rejections ==
    {"error: Invalid or forbidden project path",
     "error: Maximum number of projects reached",
     "error: Project already being watched",
     "error: Popen",
     "error: Project not being watched"}

\* _add_project: the path is validated and projects.json is loaded
AddLoad(h, path) ==
    /\ running
    /\ threads[h] = [pc |-> "idle"]
    /\ IF ~ValidProject(path)
       THEN /\ call' = [op |-> "_add_project", path |-> path,
                        response |-> "error: Invalid or forbidden project path"]
            /\ UNCHANGED threads
       ELSE /\ threads' = [threads EXCEPT ![h] =
                             [pc |-> "add_loaded", path |-> path,
                              projects |-> projects]]
            /\ call' = [op |-> "_load_projects", thread |-> h]
    /\ UNCHANGED <<projects, processes, watchers, running, spawned>>
    /\ UNCHANGED besideHandlers

\* _add_project: the cap and the duplicate test on the loaded registry,
\* then subprocess.Popen; spawn_ok is its outcome
AddSpawn(h, spawn_ok) ==
    LET local == threads[h].projects
        path == threads[h].path
        Refuse(response) ==
            /\ threads' = [threads EXCEPT ![h] = [pc |-> "idle"]]
            /\ call' = [op |-> "_add_project", path |-> path,
                        response |-> response]
            /\ UNCHANGED <<watchers, spawned>>
    IN  /\ threads[h].pc = "add_loaded"
        /\ IF Cardinality(DOMAIN local) >= max_projects
           THEN Refuse("error: Maximum number of projects reached")
           ELSE IF path \in DOMAIN local
           THEN Refuse("error: Project already being watched")
           ELSE IF ~spawn_ok
           THEN Refuse("error: Popen")
           ELSE /\ NewPids \ DOMAIN spawned # {}
                /\ watchers' = watchers \cup {FreshPid}
                /\ spawned' = DictPut(spawned, FreshPid, path)
                /\ threads' = [threads EXCEPT ![h] =
                                 [pc |-> "add_spawned", path |-> path,
                                  projects |-> local, pid |-> FreshPid]]
                /\ call' = [op |-> "Popen", thread |-> h]
        /\ UNCHANGED <<projects, processes, running>>
        /\ UNCHANGED besideHandlers

\* _add_project: projects[path] = {...}, self._save_projects(projects),
\* self.processes[path] = process, and the response
AddSave(h) ==
    /\ threads[h].pc = "add_spawned"
    /\ projects' = DictPut(threads[h].projects, threads[h].path, threads[h].pid)
    /\ processes' = processes \cup {threads[h].path}
    /\ threads' = [threads EXCEPT ![h] = [pc |-> "idle"]]
    /\ call' = [op |-> "_add_project", path |-> threads[h].path,
                pid |-> threads[h].pid, response |-> "status: added"]
    /\ UNCHANGED <<watchers, running, spawned>>
    /\ UNCHANGED besideHandlers

\* _remove_project: projects.json is loaded and the path looked up
RemoveLoad(h, path) ==
    /\ running
    /\ threads[h] = [pc |-> "idle"]
    /\ IF path \notin DOMAIN projects
       THEN /\ call' = [op |-> "_remove_project", path |-> path,
                        response |-> "error: Project not being watched"]
            /\ UNCHANGED threads
       ELSE /\ threads' = [threads EXCEPT ![h] =
                             [pc |-> "remove_loaded", path |-> path,
                              projects |-> projects]]
            /\ call' = [op |-> "_load_projects", thread |-> h]
    /\ UNCHANGED <<projects, processes, watchers, running, spawned>>
    /\ UNCHANGED besideHandlers

\* _remove_project: os.kill(project['pid'], signal.SIGTERM)
RemoveKill(h) ==
    /\ threads[h].pc = "remove_loaded"
    /\ watchers' = watchers \ {threads[h].projects[threads[h].path]}
    /\ threads' = [threads EXCEPT ![h].pc = "remove_killed"]
    /\ call' = [op |-> "os.kill", thread |-> h]
    /\ UNCHANGED <<projects, processes, running, spawned>>
    /\ UNCHANGED besideHandlers

\* _remove_project: del projects[path], self._save_projects(projects),
\* del self.processes[path], and the response
RemoveSave(h) ==
    /\ threads[h].pc = "remove_killed"
    /\ projects' = DictDel(threads[h].projects, threads[h].path)
    /\ processes' = processes \ {threads[h].path}
    /\ threads' = [threads EXCEPT ![h] = [pc |-> "idle"]]
    /\ call' = [op |-> "_remove_project", path |-> threads[h].path,
                response |-> "status: removed"]
    /\ UNCHANGED <<watchers, running, spawned>>
    /\ UNCHANGED besideHandlers

\* _list_projects: projects.json is loaded
ListLoad(h) ==
    /\ running
    /\ threads[h] = [pc |-> "idle"]
    /\ threads' = [threads EXCEPT ![h] =
                     [pc |-> "list_loaded", projects |-> projects]]
    /\ call' = [op |-> "_load_projects", thread |-> h]
    /\ UNCHANGED <<projects, processes, watchers, running, spawned>>
    /\ UNCHANGED besideHandlers

\* _list_projects: the loop over the loaded registry, which deletes the
\* entries whose pid does not exist and saves after each deletion, and the
\* response with what is left
ListSweep(h) ==
    LET kept == AliveEntries(threads[h].projects, watchers)
    IN  /\ threads[h].pc = "list_loaded"
        /\ projects' = IF kept # threads[h].projects THEN kept ELSE projects
        /\ threads' = [threads EXCEPT ![h] = [pc |-> "idle"]]
        /\ call' = [op |-> "_list_projects", ret |-> kept,
                    response |-> "projects"]
        /\ UNCHANGED <<processes, watchers, running, spawned>>
        /\ UNCHANGED besideHandlers

\* _get_status
GetStatus(h) ==
    /\ running
    /\ threads[h] = [pc |-> "idle"]
    /\ call' = [op |-> "_get_status", response |-> "status: running",
                projects_count |-> Cardinality(DOMAIN projects)]
    /\ UNCHANGED <<projects, processes, watchers, running, spawned, threads>>
    /\ UNCHANGED besideHandlers

\* stop: self.running = False and SIGTERM to the pid of every entry of
\* projects.json; the registry file is left as it is
StopDaemon(h) ==
    /\ running
    /\ threads[h] = [pc |-> "idle"]
    /\ running' = FALSE
    /\ watchers' = watchers \ {projects[q] : q \in DOMAIN projects}
    /\ call' = [op |-> "stop", response |-> "no response"]
    /\ UNCHANGED <<projects, processes, spawned, threads>>
    /\ UNCHANGED besideHandlers

\* a daemon that has registered the first n projects, one after the other
InitHandlers ==
    /\ InitStoreVars
    /\ InitEngineVars
    /\ InitOtherVars
    /\ \E n \in RegisteredAtStart :
          /\ projects = [i \in 1..n |-> i]
          /\ processes = 1..n
          /\ watchers = 1..n
          /\ spawned = [i \in 1..n |-> i]
    /\ running = TRUE

NextHandlers ==
    \/ DaemonStart
    \/ \E h \in Threads, path \in RequestPaths : AddLoad(h, path)
    \/ \E h \in Threads, spawn_ok \in BOOLEAN : AddSpawn(h, spawn_ok)
    \/ \E h \in Threads : AddSave(h)
    \/ \E h \in Threads, path \in RequestPaths : RemoveLoad(h, path)
    \/ \E h \in Threads : RemoveKill(h)
    \/ \E h \in Threads : RemoveSave(h)
    \/ \E h \in Threads : ListLoad(h)
    \/ \E h \in Threads : ListSweep(h)
    \/ \E h \in Threads : GetStatus(h)
    \/ \E h \in Threads : StopDaemon(h)
    \/ \E pid \in DyingPids : WatcherExits(pid)

SpecHandlers == InitHandlers /\ [][NextHandlers]_vars

\* C24: the daemon never supervises more than max_projects projects, also
\* when add requests are handled at the same time on separate threads: the
\* registry holds at most 20 entries and at most 20 watcher processes
\* started by add are alive and not removed.
C24_AtMostMaxProjects ==
    /\ Cardinality(DOMAIN projects) <= max_projects
    /\ Cardinality(watchers) <= max_projects

\* the watcher pid has an entry in the registry
Registered(pid) == \E q \in DOMAIN projects : projects[q] = pid

\* the add that started the watcher pid has not saved the registry yet
BeingAdded(pid) ==
    \E h \in Threads : threads[h].pc = "add_spawned" /\ threads[h].pid = pid

\* C29: the updates of the registry are serialized under add and remove
\* requests handled on different threads: every watcher started by a
\* successful add has its registry entry until it is removed or found dead,
\* and no project path has two watcher processes at the same time.
C29_RegistrySerialized ==
    /\ \A pid \in watchers : ~BeingAdded(pid) => Registered(pid)
    /\ \A p1, p2 \in watchers : p1 # p2 => spawned[p1] # spawned[p2]

\* C23: the registration of a project changes only through a successful
\* add (unregistered to watching), a remove, a daemon stop, or the sweep of
\* list_projects, which unregisters exactly the projects whose pid does not
\* exist and returns none of them; status requests, refused adds and failed
\* removes leave the registry and the watcher processes as they are.
C23_RegistrationChanges ==
    [][/\ projects' # projects =>
            \/ /\ call'.op = "_add_project"
               /\ call'.response = "status: added"
               /\ call'.path \notin DOMAIN projects
               /\ projects' = DictPut(projects, call'.path, call'.pid)
            \/ /\ call'.op = "_remove_project"
               /\ call'.response = "status: removed"
               /\ projects' = DictDel(projects, call'.path)
            \/ call'.op = "_list_projects"
            \/ call'.op = "stop"
       /\ call'.op = "_list_projects" =>
            /\ projects' = AliveEntries(projects, watchers)
            /\ \A q \in DOMAIN call'.ret : call'.ret[q] \in watchers'
       /\ (\/ call'.op = "_get_status"
           \/ /\ call'.op \in {"_add_project", "_remove_project"}
              /\ call'.response \in Rejections)
          => /\ projects' = projects
             /\ watchers' = watchers
             /\ processes' = processes]_vars

====
